---------------------------- MODULE Spec2Model ----------------------------
(***************************************************************************)
(* State-machine model of the Decentralized Agent Kit's adaptive agent:    *)
(* the Enforcer (enforcer_validator.py), the Mode Manager and the mode     *)
(* switch (mode_manager.py, adaptive_agent.py), and the payment-gated      *)
(* tools with their wallet (decorators.py, paid_tool.py, wallets/).        *)
(***************************************************************************)
EXTENDS Integers, Sequences, FiniteSets, TLC

(***************************************************************************)
(* Bounds of the model.                                                    *)
(***************************************************************************)
\* Longest model response, in parts, that the Enforcer check enumerates.
MaxParts == 2
\* Model responses handled, over all sessions, in one run of the agent.
MaxResponses == 3
\* Payments the model sends in one run of the payment model.
MaxSends == 2
\* Longest session, in turns, that the trigger check enumerates.
MaxTurns == 2

VARIABLES
    \* --- the agent (one process-wide AdaptiveAgent, agent.py:181) ---
    instruction,      \* LlmAgent.instruction: [base, skills appended]
    tools,            \* LlmAgent.tools: sequence of tool entries
    tool_filter,      \* tool_filter of the original McpToolset object
    active_skills,    \* AdaptiveAgent._active_skills
    remote_tools,     \* AdaptiveAgent.available_remote_tools (names)
    mm,               \* ModeManager: _is_first_turn, _switch_requested, _requested_focus
    pact,             \* the SessionState the Enforcer closure holds (agent.py:147)
    env,              \* _meta_agent_client, _enable_ap2, _payment_handler present
    committed,        \* the Mode as the last completed operation left it
    \* --- sessions ---
    contents,         \* session -> sequence of turns
    pc,               \* session -> position in the turn loop
    pending,          \* session -> the model response being handled
    clears,           \* session -> number of history clears so far
    swPre,            \* session -> Mode when its suspended mode switch began
    responses,        \* model responses handled so far
    last,             \* the operation that produced this state, with its inputs
    \* --- Enforcer check on enumerated responses ---
    enf,
    \* --- the callback's control logic on enumerated inputs ---
    trig,
    \* --- paid tools and wallet ---
    wallet,           \* the wallet: mode, balance
    ledger,           \* transactions the wallet actually sent
    paylog,           \* the last paid-tool or wallet operation and its outcome
    \* --- the history clear on enumerated session objects ---
    store,
    \* --- the chat loop of the command-line host ---
    cli,
    \* --- enable_skill on enumerated agents ---
    sk,
    \* --- the A2A peers of agent_config.yaml ---
    a2a,
    \* --- a SkillRegistry over enumerated skill directories ---
    reg,
    \* --- one /chat request of the BFF ---
    bff

agentVars == <<instruction, tools, tool_filter, active_skills, remote_tools, mm,
               pact, env, committed, contents, pc, pending, clears, swPre, responses, last>>
payVars == <<wallet, ledger, paylog>>
hostVars == <<a2a, reg, bff>>
auxVars == <<store, cli, sk, hostVars>>
vars == <<agentVars, enf, trig, payVars, auxVars>>

None == "None"

(***************************************************************************)
(* Tool names.                                                             *)
(***************************************************************************)
\* agent.py:141,175 (planner, switch_mode and the Enforcer-mode tools) and
\* adaptive_agent.py:278-279 (list_skills, enable_skill).
BuiltinNames ==
    {"planner", "switch_mode", "system_retry", "attempt_answer", "ask_question",
     "list_skills", "enable_skill"}

\* Tools the MCP server lists (mcp-server/main.py); planner is served there too.
McpServerTools ==
    {"deep_think", "read_file", "write_file", "list_files", "run_command",
     "search_files", "planner"}

(***************************************************************************)
(* Enforcer (enforcer_validator.py).                                       *)
(***************************************************************************)
\* SessionState.__init__
NewSessionState == [active_plan |-> FALSE, allowed_tools |-> {}]

PlanDefaults ==
    {"planner", "ask_question", "attempt_answer", "deep_think", "system_retry",
     "switch_mode"}

\* A mutant of set_plan: the new names are added to the plan in force.
set_plan_Accumulate(st, names) ==
    [active_plan |-> TRUE, allowed_tools |-> st.allowed_tools \cup names \cup PlanDefaults]

\* SessionState.set_plan
set_plan(st, names) ==
    [active_plan |-> TRUE, allowed_tools |-> names \cup PlanDefaults]

EnforcerMarker == "[ENFORCER_BLOCKED]"

\* _create_enforcement_error: a text-only model response whose text starts
\* with the marker and carries the message.
create_enforcement_error(message) ==
    [kind |-> "block",
     parts |-> << [kind |-> "text",
                   text |-> [marker |-> EnforcerMarker, message |-> message]] >>,
     turn_complete |-> TRUE]

DirectTextMessage == [what |-> "Direct responses are not allowed"]

ViolationMessage(tool_name, allowed) ==
    [what |-> "Violation", tool |-> tool_name, allowed |-> allowed]

\* A model response: content None, or a sequence of parts. A part is a text
\* part or a function call [name, args]; args.none says the call has args None.
NoContent == [content |-> None, parts |-> << >>]
Response(parts) == [content |-> "parts", parts |-> parts]
TextPart == [kind |-> "text", chars |-> 40]
Call(name, args) == [kind |-> "call", name |-> name, args |-> args]
NoArgs == [none |-> TRUE]
EmptyArgs == [none |-> FALSE]
NoBlock == [kind |-> "none"]
IsCall(part) == part.kind = "call"

\* enforcer_validator lines 42-47: the function-call parts, in order.
ToolCallsOf(resp) ==
    IF resp.content = None THEN << >> ELSE SelectSeq(resp.parts, IsCall)

\* The value of args.get("allowed_tools", []) as a set of names: a missing
\* key gives the empty list, a string is wrapped in a list.
AllowedToolsArg(args) ==
    IF "allowed_tools" \notin DOMAIN args THEN {}
    ELSE IF args.allowed_tools.type = "str" THEN {args.allowed_tools.val}
    ELSE args.allowed_tools.val

\* enforcer_validator lines 72-102: the loop over the tool calls. Returns the
\* verdict (allow, block or raise), the SessionState left behind and the block.
RECURSIVE ProcessToolCalls(_, _)
ProcessToolCalls(calls, st) ==
    IF calls = << >> THEN [result |-> "allow", state |-> st, block |-> NoBlock]
    ELSE LET c == Head(calls) IN
      IF c.name = "planner" THEN
         IF c.args.none
         THEN \* args.get on None: AttributeError leaves the validator
              [result |-> "raise", state |-> st, block |-> NoBlock]
         ELSE LET allowed == AllowedToolsArg(c.args) IN
              ProcessToolCalls(Tail(calls),
                               IF allowed # {} THEN set_plan(st, allowed) ELSE st)
      ELSE IF st.active_plan /\ c.name \notin st.allowed_tools
           THEN [result |-> "block", state |-> st,
                 block |-> create_enforcement_error(
                              ViolationMessage(c.name, st.allowed_tools))]
           ELSE ProcessToolCalls(Tail(calls), st)

\* A mutant of enforcer_validator: only a response that carries text is
\* blocked for having no tool call.
enforcer_validator_TextOnly(resp, st) ==
    IF ToolCallsOf(resp) = << >> /\ resp.content # None /\ resp.parts # << >>
    THEN [result |-> "block", state |-> st,
          block |-> create_enforcement_error(DirectTextMessage)]
    ELSE ProcessToolCalls(ToolCallsOf(resp), st)

\* enforcer_validator
enforcer_validator(resp, st) ==
    IF ToolCallsOf(resp) = << >>
    THEN [result |-> "block", state |-> st,
          block |-> create_enforcement_error(DirectTextMessage)]
    ELSE ProcessToolCalls(ToolCallsOf(resp), st)

(***************************************************************************)
(* Mode Manager (mode_manager.py).                                         *)
(***************************************************************************)
\* ModeManager.MODEL_MAX_TOKENS["gemini-2.5-flash"], the model agent.py:182 names.
max_context_tokens == 1000000

\* ModeManager.__init__; _requested_focus does not exist before request_switch.
NewModeManager ==
    [is_first_turn |-> TRUE, switch_requested |-> FALSE, requested_focus |-> None]

\* A mutant of the threshold test: the ratio must exceed the threshold.
OverThreshold_Strict(count) == 2 * count > max_context_tokens

\* token_threshold = 0.5: count / max >= 0.5, in integers.
OverThreshold(count) == 2 * count >= max_context_tokens

\* A mutant of should_switch: the first-turn guard is missing.
should_switch_NoFirstTurn(m, count) ==
    IF count > 0 /\ OverThreshold(count) THEN [switch |-> TRUE, mm |-> m]
    ELSE IF m.switch_requested
         THEN [switch |-> TRUE, mm |-> [m EXCEPT !.switch_requested = FALSE]]
         ELSE [switch |-> FALSE, mm |-> m]

\* ModeManager.should_switch: the answer and the manager left behind.
should_switch(m, count) ==
    IF m.is_first_turn
    THEN [switch |-> FALSE, mm |-> [m EXCEPT !.is_first_turn = FALSE]]
    ELSE IF count > 0 /\ OverThreshold(count) THEN [switch |-> TRUE, mm |-> m]
    ELSE IF m.switch_requested
         THEN [switch |-> TRUE, mm |-> [m EXCEPT !.switch_requested = FALSE]]
         ELSE [switch |-> FALSE, mm |-> m]

\* ModeManager.request_switch
request_switch(m, new_focus) ==
    [m EXCEPT !.switch_requested = TRUE, !.requested_focus = new_focus]

\* ModeManager.reset_session: the two flags are set anew, nothing else.
reset_session(m) == [m EXCEPT !.is_first_turn = TRUE, !.switch_requested = FALSE]

\* The new_focus argument of a switch_mode call: args or {}, then .get("new_focus", "").
NewFocusArg(args) ==
    IF args.none \/ "new_focus" \notin DOMAIN args THEN "" ELSE args.new_focus

\* AdaptiveAgent._check_for_switch_request: every switch_mode call of the
\* response requests a switch, the last one's focus staying.
RECURSIVE check_for_switch_request(_, _)
check_for_switch_request(calls, m) ==
    IF calls = << >> THEN m
    ELSE check_for_switch_request(
           Tail(calls),
           IF Head(calls).name = "switch_mode"
           THEN request_switch(m, NewFocusArg(Head(calls).args))
           ELSE m)

\* The meta-LLM's answer to generate_mode_config: a failure (the call raises,
\* empty text, text that is not JSON) or a JSON object.
MetaFailure == [ok |-> FALSE]
MetaAnswer(instr, T, S) ==
    [ok |-> TRUE, instruction |-> instr, selected_tools |-> T, selected_skills |-> S]

\* A mutant of generate_mode_config: the selected tools are dropped.
generate_mode_config_NoTools(answer) ==
    IF ~answer.ok THEN [instruction |-> "continue", tools |-> {}, skills |-> {}]
    ELSE [instruction |-> IF answer.instruction = None THEN "continue"
                          ELSE answer.instruction,
          tools |-> {}, skills |-> answer.selected_skills]

\* ModeManager.generate_mode_config lines 175-206: what it returns for the
\* meta-LLM's answer. "continue" is the text "Continue with current task.".
generate_mode_config(answer) ==
    IF ~answer.ok THEN [instruction |-> "continue", tools |-> {}, skills |-> {}]
    ELSE [instruction |-> IF answer.instruction = None THEN "continue"
                          ELSE answer.instruction,
          tools |-> answer.selected_tools, skills |-> answer.selected_skills]

(***************************************************************************)
(* The Mode: instruction and tool list of the agent (adaptive_agent.py).   *)
(***************************************************************************)
Sessions == {"A", "B"}

\* The built-in FunctionTools in the order agent.py and __init__ list them.
BuiltinOrder ==
    <<"planner", "switch_mode", "system_retry", "attempt_answer", "ask_question",
      "list_skills", "enable_skill">>

FnTool(n) == [kind |-> "fn", name |-> n]
\* The McpToolset object agent.py creates; its filter is the variable tool_filter.
OrigToolset == [kind |-> "orig", name |-> "McpToolset"]
\* A McpToolset enable_skill creates, with its own filter.
NewToolset(names) == [kind |-> "mcp", name |-> "McpToolset", filter |-> names]

\* __init__ lines 283-296: the tools that are not toolsets.
builtin_tools == [i \in 1..Len(BuiltinOrder) |-> FnTool(BuiltinOrder[i])]

NoFilter == [none |-> TRUE, names |-> {}]
Filter(names) == [none |-> FALSE, names |-> names]

\* The MCP client's tool_filter: None lists every tool of the server.
FilteredServerTools(f) ==
    IF f.none THEN McpServerTools ELSE McpServerTools \cap f.names

\* The names one entry of the tool list exposes to the model.
ExposedBy(t, f) ==
    IF t.kind = "fn" THEN {t.name}
    ELSE IF t.kind = "orig" THEN FilteredServerTools(f)
    ELSE McpServerTools \cap t.filter

ExposedNamesOf(ts, f) == UNION {ExposedBy(ts[i], f) : i \in DOMAIN ts}

\* The tool names an LLM request built now would carry.
ExposedNames == ExposedNamesOf(tools, tool_filter)

\* What an LLM request built now is made of.
Mode == [instruction |-> instruction, tools |-> tools, tool_filter |-> tool_filter]

\* The state a session is served with. agent.py builds one AdaptiveAgent
\* (root_agent), and one SessionState that the Enforcer closure passes to
\* the validator whatever the session of the callback.
ModeFor(s) == Mode
SessionStateFor(s) == pact

(***************************************************************************)
(* Skills (skill_registry.py, skills/).                                    *)
(***************************************************************************)
\* The curated skills of the registry (the directories under skills/) and
\* the tools each lists, taken to be the tool functions of its tools.py.
SkillNames == {"premium_service", "solana_wallet", "symbol_wallet"}
SkillTools(n) ==
    IF n = "premium_service" THEN {"perform_premium_analysis"}
    ELSE IF n = "solana_wallet"
    THEN {"check_solana_balance", "get_solana_address", "send_sol_payment",
          "verify_sol_payment"}
    ELSE IF n = "symbol_wallet"
    THEN {"check_my_balance", "get_my_address", "send_token", "premium_analysis"}
    ELSE {}
\* The callables a skill's own tools.py defines, among the tools it lists.
LocalImpls(n) == SkillTools(n)
\* enable_skill lines 143-153: a directory named like the skill exists.
SkillDirExists(n) == n \in SkillNames

\* enable_skill line 239.
WalletToolOrder == <<"check_solana_balance", "get_solana_address", "send_sol_payment">>

\* The names of the entries that carry one (lines 134-138, 245).
ToolNames(ts) == {ts[i].name : i \in {j \in DOMAIN ts : ts[j].kind = "fn"}}

SetToSeq(S) ==
    LET RECURSIVE Build(_)
        Build(R) == IF R = {} THEN << >>
                    ELSE LET x == CHOOSE y \in R : TRUE IN <<x>> \o Build(R \ {x})
    IN Build(S)

\* enable_skill lines 214-253: with AP2 on and the wallet module importable,
\* the wallet tools not yet in the list are appended.
RECURSIVE AddWalletTools(_, _)
AddWalletTools(ts, names) ==
    IF names = << >> THEN ts
    ELSE AddWalletTools(
           IF Head(names) \in ToolNames(ts) THEN ts ELSE Append(ts, FnTool(Head(names))),
           Tail(names))

\* The block enable_skill and the mode switch append to the instruction.
AddSkillText(instr, n) == [instr EXCEPT !.skills = Append(@, n)]

\* enable_skill (lines 89-255) after the remote tools were looked up. a is
\* the agent state it reads and writes; mcpOk says whether a McpToolset could
\* be created, localOk and walletOk whether the skill's tools.py and the wallet
\* tools module could be imported.
enable_skill(n, a, localOk, mcpOk, walletOk) ==
    LET curated == n \in SkillNames
        remote  == n \in a.remote_tools
    IN
    IF ~curated /\ ~remote THEN [ret |-> "not_found", a |-> a]
    ELSE IF n \in a.active_skills THEN [ret |-> "already_active", a |-> a]
    ELSE
      LET a1 == [a EXCEPT !.active_skills = @ \cup {n},
                          !.instruction = AddSkillText(@, n)]
          required == IF curated THEN SkillTools(n) ELSE {n}
          missing == required \ ToolNames(a.tools)
          local == IF localOk THEN missing \cap LocalImpls(n) ELSE {}
          fromMcp == missing \ local
      IN
      IF ~SkillDirExists(n) THEN [ret |-> "no_skill_dir", a |-> a1]
      ELSE
        LET a2 == [a1 EXCEPT !.tools = @ \o [i \in 1..Cardinality(local) |->
                                               FnTool(SetToSeq(local)[i])]]
        IN
        IF fromMcp # {} /\ ~mcpOk THEN [ret |-> "mcp_failed", a |-> a2]
        ELSE
          LET a3 == IF fromMcp # {}
                    THEN [a2 EXCEPT !.tools = Append(@, NewToolset(fromMcp))]
                    ELSE a2
              a4 == IF a.enable_ap2 /\ walletOk /\ n # "solana_wallet"
                       /\ "solana_wallet" \notin a3.active_skills
                    THEN [a3 EXCEPT !.tools = AddWalletTools(@, WalletToolOrder)]
                    ELSE a3
          IN [ret |-> "enabled", a |-> a4]

(***************************************************************************)
(* Sessions and the turn loop around _wrapped_callback.                    *)
(***************************************************************************)
UserTurn(chars) == [kind |-> "user", chars |-> chars]
ModelTextTurn(chars) == [kind |-> "model_text", chars |-> chars]
\* A tool call or tool result turn: n is the position of the call among the
\* calls of its response, epoch the number of clears before its dispatch.
CallTurn(n, epoch) == [kind |-> "call", n |-> n, epoch |-> epoch, chars |-> 0]
ResultTurn(n, epoch) == [kind |-> "result", n |-> n, epoch |-> epoch, chars |-> 0]
\* The Enforcer's replacement response as it lands in the session.
BlockTurn == [kind |-> "block", chars |-> 400]

\* _estimate_context_tokens: the text characters of the session, over 4.
RECURSIVE TotalChars(_)
TotalChars(cs) == IF cs = << >> THEN 0 ELSE Head(cs).chars + TotalChars(Tail(cs))
estimate_context_tokens(cs) == TotalChars(cs) \div 4

\* A mutant of the history clear: the latest turn survives the clear.
ClearHistory_KeepLast(cs) == IF cs = << >> THEN << >> ELSE <<cs[Len(cs)]>>

\* _perform_mode_switch lines 695-722: context.session.contents.clear().
ClearHistory(cs) == << >>

\* The turns a model response adds to the session when its event is emitted:
\* its text parts and its calls, in order.
RECURSIVE TurnsOf(_, _, _)
TurnsOf(parts, k, epoch) ==
    IF parts = << >> THEN << >>
    ELSE IF Head(parts).kind = "text"
         THEN <<ModelTextTurn(Head(parts).chars)>> \o TurnsOf(Tail(parts), k, epoch)
         ELSE <<CallTurn(k, epoch)>> \o TurnsOf(Tail(parts), k + 1, epoch)

\* One result turn per call, in the order of the calls.
ResultsOf(calls, epoch) == [i \in 1..Len(calls) |-> ResultTurn(i, epoch)]

\* The model responses the agent run draws from.
SwitchCall(focus) == Call("switch_mode", [none |-> FALSE, new_focus |-> focus])
PlannerCall(names) ==
    Call("planner", [none |-> FALSE, allowed_tools |-> [type |-> "list", val |-> names]])
EnableCall(n) == Call("enable_skill", [none |-> FALSE, skill_name |-> n])
AgentResponses ==
    { Response(<<TextPart>>),
      Response(<<SwitchCall("files")>>),
      Response(<<PlannerCall({"read_file"})>>),
      Response(<<Call("read_file", EmptyArgs)>>),
      Response(<<Call("attempt_answer", EmptyArgs)>>),
      Response(<<Call("planner", NoArgs), Call("write_file", EmptyArgs)>>),
      Response(<<EnableCall("premium_service")>>),
      Response(<<SwitchCall("files"), Call("write_file", EmptyArgs)>>),
      Response(<<PlannerCall({"write_file"}), Call("write_file", EmptyArgs)>>) }

\* The answers the meta-LLM may give.
MetaAnswers ==
    { MetaFailure,
      MetaAnswer("meta", {}, {"premium_service"}),
      MetaAnswer("meta", {"read_file"}, {}),
      MetaAnswer("meta", {"write_file", "switch_mode"}, {"premium_service"}) }

\* The length of a user message, in characters: one long enough to pass half
\* of the context window on its own.
UserChars == {4000000}

\* AdaptiveAgent.__init__ default (agent.py does not pass it).
disable_mode_switching == FALSE

NoSwitch == [on |-> FALSE]
NoOp == [op |-> "init"]

\* The agent after construction (agent.py:181-187, AdaptiveAgent.__init__),
\* but for its environment.
AgentConstructed ==
    /\ instruction = [base |-> "initial", skills |-> << >>]
    /\ tools = builtin_tools
    /\ tool_filter = NoFilter
    /\ active_skills = {}
    /\ remote_tools = {}
    /\ mm = NewModeManager
    /\ pact = NewSessionState
    /\ committed = [instruction |-> [base |-> "initial", skills |-> << >>],
                    tools |-> builtin_tools, tool_filter |-> NoFilter]
    /\ contents = [s \in Sessions |-> << >>]
    /\ pc = [s \in Sessions |-> "idle"]
    /\ pending = [s \in Sessions |-> NoContent]
    /\ clears = [s \in Sessions |-> 0]
    /\ swPre = [s \in Sessions |-> NoSwitch]
    /\ responses = 0
    /\ last = NoOp

\* A deployment where the GenAI client could be created and
\* ENABLE_AP2_PROTOCOL has its default (no PaymentHandler then).
DefaultEnv == [meta_client |-> TRUE, enable_ap2 |-> FALSE, payment_handler |-> FALSE]

InitAgent == AgentConstructed /\ env = DefaultEnv

\* The agent fields enable_skill and the remote-tool lookup read and write.
AgentRec ==
    [instruction |-> instruction, tools |-> tools, active_skills |-> active_skills,
     remote_tools |-> remote_tools, enable_ap2 |-> env.enable_ap2,
     meta_client |-> env.meta_client]

\* _ensure_remote_tools_loaded: nothing when tools are already known;
\* otherwise the server's tools are recorded if the lookup worked, and the
\* meta-LLM client is created anew (or lost, if that fails).
ensure_remote_tools_loaded(a, loadOk, clientOk) ==
    IF a.remote_tools # {} THEN a
    ELSE [a EXCEPT !.remote_tools = IF loadOk THEN McpServerTools ELSE {},
                   !.meta_client = clientOk]

\* The effect of running the tool calls of a response, in order.
RECURSIVE RunTools(_, _, _)
RunTools(calls, a, ch) ==
    IF calls = << >> THEN a
    ELSE LET c == Head(calls)
             a1 == IF c.name \in {"list_skills", "enable_skill"}
                   THEN ensure_remote_tools_loaded(a, ch.loadOk, ch.clientOk)
                   ELSE a
             a2 == IF c.name = "enable_skill"
                   THEN enable_skill(c.args.skill_name, a1, ch.localOk, ch.mcpOk,
                                     ch.walletOk).a
                   ELSE a1
         IN RunTools(Tail(calls), a2, ch)

Choices == [loadOk : BOOLEAN, clientOk : BOOLEAN, localOk : BOOLEAN,
            mcpOk : BOOLEAN, walletOk : BOOLEAN]

AllOk == [loadOk |-> TRUE, clientOk |-> TRUE, localOk |-> TRUE, mcpOk |-> TRUE,
          walletOk |-> TRUE]
\* The outcomes that matter for a list of calls: only list_skills and
\* enable_skill look anything up, the remote tools are looked up only while
\* none is known, and the wallet module is imported only with AP2 on.
ChoicesFor(calls, a) ==
    IF \E i \in DOMAIN calls : calls[i].name \in {"list_skills", "enable_skill"}
    THEN {ch \in Choices : /\ a.remote_tools # {} => ch.loadOk /\ ch.clientOk
                           /\ ~a.enable_ap2 => ch.walletOk}
    ELSE {AllOk}

TerminalTools == {"attempt_answer", "ask_question"}
CallNames(calls) == {calls[i].name : i \in DOMAIN calls}

\* A mutant of the new tool list: the built-in tools are left out.
NewToolList_NoBuiltin(hasOrig) == IF hasOrig THEN <<OrigToolset>> ELSE << >>

\* _perform_mode_switch lines 653-687: the built-in tools, then the original
\* McpToolset object (filtered or, with no tool selected, as it is).
NewToolList(hasOrig) ==
    builtin_tools \o (IF hasOrig THEN <<OrigToolset>> ELSE << >>)

\* Lines 631-651: the instructions of the selected skills that are known.
SwitchInstruction(cfg, remote) ==
    [base |-> cfg.instruction,
     skills |-> SetToSeq({k \in cfg.skills : k \in SkillNames \/ k \in remote})]

\* Values of the variables a specification does not use.
EnfParked == [resp |-> NoContent, before |-> NewSessionState, done |-> FALSE,
              out |-> [result |-> "none", state |-> NewSessionState, block |-> NoBlock]]
PayParked == <<[op |-> "init"]>>
StoreParked == [done |-> FALSE]
CliParked == [pc |-> "parked"]
SkParked == [done |-> FALSE]
A2aParked == [done |-> FALSE]
RegParked == [done |-> FALSE]
BffParked == [pc |-> "parked"]
TrigParked == [resp |-> NoContent, pact |-> NewSessionState, mm |-> NewModeManager,
               turns |-> << >>, done |-> FALSE, out |-> [result |-> "none"],
               reset |-> [done |-> FALSE]]

\* A mutant of _wrapped_callback: the switch request and the trigger are
\* handled before the Enforcer's verdict is looked at.
wrapped_callback_SwitchOnBlock(R, st, m, count) ==
    LET v == enforcer_validator(R, st)
        d == should_switch(check_for_switch_request(ToolCallsOf(R), m), count)
    IN IF v.result = "raise"
       THEN [result |-> "raise", v |-> v, mm |-> m, switch |-> FALSE]
       ELSE [result |-> v.result, v |-> v, mm |-> d.mm, switch |-> d.switch]

\* _wrapped_callback lines 439-487, up to the decision to switch: the
\* Enforcer's verdict v, the ModeManager left behind and whether
\* _perform_mode_switch is entered. A block returns at once; an exception of
\* the validator leaves through the outer handler.
wrapped_callback(R, st, m, count) ==
    LET v == enforcer_validator(R, st)
        m1 == check_for_switch_request(ToolCallsOf(R), m)
        d == should_switch(m1, count)
    IN IF v.result \in {"block", "raise"}
       THEN [result |-> v.result, v |-> v, mm |-> m, switch |-> FALSE]
       ELSE IF disable_mode_switching
       THEN [result |-> "allow", v |-> v, mm |-> m1, switch |-> FALSE]
       ELSE [result |-> "allow", v |-> v, mm |-> d.mm, switch |-> d.switch]

(***************************************************************************)
(* The agent's turn loop. One action per step of a run on a session.       *)
(***************************************************************************)
\* A user message starts a run; the first LLM request is built from the Mode.
UserMessage(s) ==
    /\ pc[s] = "idle"
    /\ \E n \in UserChars :
         contents' = [contents EXCEPT ![s] = Append(@, UserTurn(n))]
    /\ pc' = [pc EXCEPT ![s] = "llm"]
    /\ last' = [op |-> "request", session |-> s]
    /\ UNCHANGED <<instruction, tools, tool_filter, active_skills, remote_tools, mm,
                   pact, env, committed, pending, clears, swPre, responses, enf, trig,
                   payVars, auxVars>>

\* _wrapped_callback on a model response R, up to its return or up to the
\* await inside _perform_mode_switch.
LlmRespond(s) ==
    /\ pc[s] = "llm"
    /\ responses < MaxResponses
    /\ \E R \in AgentResponses :
         LET calls == ToolCallsOf(R)
             w == wrapped_callback(R, pact, mm, estimate_context_tokens(contents[s]))
             switching == w.switch /\ env.meta_client
         IN
         /\ CallNames(calls) \subseteq ExposedNames
         /\ responses' = responses + 1
         /\ pact' = w.v.state
         /\ mm' = w.mm
         /\ IF w.result = "block"
            THEN /\ contents' = [contents EXCEPT ![s] = Append(@, BlockTurn)]
                 /\ pc' = [pc EXCEPT ![s] = "idle"]
                 /\ pending' = [pending EXCEPT ![s] = NoContent]
                 /\ last' = [op |-> "blocked", session |-> s, response |-> R,
                             block |-> w.v.block]
                 /\ UNCHANGED <<tool_filter, swPre>>
            ELSE IF w.result = "raise"
            THEN /\ pc' = [pc EXCEPT ![s] = "emit"]
                 /\ pending' = [pending EXCEPT ![s] = R]
                 /\ last' = [op |-> "callback_raised", session |-> s]
                 /\ UNCHANGED <<tool_filter, swPre, contents>>
            ELSE /\ pending' = [pending EXCEPT ![s] = R]
                 /\ IF switching
                    THEN /\ tool_filter' = NoFilter
                         /\ swPre' = [swPre EXCEPT ![s] =
                                        [on |-> TRUE, mode |-> Mode,
                                         focus |-> w.mm.requested_focus]]
                         /\ pc' = [pc EXCEPT ![s] = "switching"]
                         /\ last' = [op |-> "switch_begin", session |-> s]
                    ELSE /\ pc' = [pc EXCEPT ![s] = "emit"]
                         /\ last' = [op |-> "allowed", session |-> s,
                                     wanted |-> w.switch]
                         /\ UNCHANGED <<tool_filter, swPre>>
                 /\ UNCHANGED contents
    /\ UNCHANGED <<instruction, tools, active_skills, remote_tools, env, committed,
                   clears, enf, trig, payVars, auxVars>>

\* _perform_mode_switch from the return of get_tools to its end.
SwitchFinish(s) ==
    /\ pc[s] = "switching"
    /\ \E answer \in MetaAnswers :
         LET cfg == generate_mode_config(answer)
             newFilter == IF cfg.tools # {} THEN Filter(cfg.tools) ELSE tool_filter
             newInstr == SwitchInstruction(cfg, remote_tools)
             newTools == NewToolList(TRUE)
         IN
         /\ instruction' = newInstr
         /\ tools' = newTools
         /\ tool_filter' = newFilter
         /\ committed' = [instruction |-> newInstr, tools |-> newTools,
                          tool_filter |-> newFilter]
         /\ contents' = [contents EXCEPT ![s] = ClearHistory(@)]
         /\ clears' = [clears EXCEPT ![s] = @ + 1]
         /\ last' = [op |-> "switch", session |-> s, answer |-> answer,
                     focus |-> swPre[s].focus]
    /\ swPre' = [swPre EXCEPT ![s] = NoSwitch]
    /\ pc' = [pc EXCEPT ![s] = "emit"]
    /\ UNCHANGED <<active_skills, remote_tools, mm, pact, env, pending, responses,
                   enf, trig, payVars, auxVars>>

\* The callback returned None: the response joins the session and its tool
\* calls are dispatched.
EmitResponse(s) ==
    /\ pc[s] = "emit"
    /\ contents' = [contents EXCEPT ![s] = @ \o TurnsOf(pending[s].parts, 1, clears[s])]
    /\ pc' = [pc EXCEPT ![s] = "tools"]
    /\ last' = [op |-> "emit", session |-> s]
    /\ UNCHANGED <<instruction, tools, tool_filter, active_skills, remote_tools, mm,
                   pact, env, committed, pending, clears, swPre, responses, enf, trig,
                   payVars, auxVars>>

\* The dispatched tools ran: their effects on the agent, their results in the
\* session, and either the end of the run or the next LLM request.
ToolsComplete(s) ==
    /\ pc[s] = "tools"
    /\ \E ch \in ChoicesFor(ToolCallsOf(pending[s]), AgentRec) :
         LET calls == ToolCallsOf(pending[s])
             a == RunTools(calls, AgentRec, ch)
             over == CallNames(calls) \cap TerminalTools # {}
         IN
         /\ instruction' = a.instruction
         /\ tools' = a.tools
         /\ active_skills' = a.active_skills
         /\ remote_tools' = a.remote_tools
         /\ env' = [env EXCEPT !.meta_client = a.meta_client]
         /\ committed' = [instruction |-> a.instruction, tools |-> a.tools,
                          tool_filter |-> committed.tool_filter]
         /\ contents' = [contents EXCEPT ![s] = @ \o ResultsOf(calls, clears[s])]
         /\ pc' = [pc EXCEPT ![s] = IF over THEN "idle" ELSE "llm"]
         /\ last' = IF over THEN [op |-> "run_end", session |-> s]
                    ELSE [op |-> "request", session |-> s]
    /\ pending' = [pending EXCEPT ![s] = NoContent]
    /\ UNCHANGED <<tool_filter, mm, pact, clears, swPre, responses, enf, trig, payVars, auxVars>>

Init ==
    /\ InitAgent
    /\ enf = EnfParked /\ trig = TrigParked
    /\ wallet = PayParked /\ ledger = PayParked /\ paylog = PayParked
    /\ store = StoreParked /\ cli = CliParked /\ sk = SkParked
    /\ a2a = A2aParked /\ reg = RegParked /\ bff = BffParked

Next ==
    \/ \E s \in Sessions : UserMessage(s)
    \/ \E s \in Sessions : LlmRespond(s)
    \/ \E s \in Sessions : SwitchFinish(s)
    \/ \E s \in Sessions : EmitResponse(s)
    \/ \E s \in Sessions : ToolsComplete(s)

Spec == Init /\ [][Next]_vars

(***************************************************************************)
(* The Enforcer on enumerated responses: enforcer_validator is applied     *)
(* once to a response and a SessionState drawn from bounded sets.          *)
(***************************************************************************)
PartKinds ==
    { TextPart,
      Call("planner", NoArgs),
      Call("planner", EmptyArgs),
      Call("planner", [none |-> FALSE, allowed_tools |-> [type |-> "list", val |-> {}]]),
      PlannerCall({"read_file"}),
      Call("planner", [none |-> FALSE,
                       allowed_tools |-> [type |-> "str", val |-> "write_file"]]),
      Call("read_file", EmptyArgs),
      Call("write_file", EmptyArgs),
      Call("deep_think", EmptyArgs),
      SwitchCall("files") }

PartSeqs == UNION {[1..n -> PartKinds] : n \in 0..MaxParts}
EnforcerResponses == {NoContent} \cup {Response(ps) : ps \in PartSeqs}
EnforcerStates ==
    { NewSessionState, set_plan(NewSessionState, {"read_file"}),
      set_plan(NewSessionState, {"write_file"}) }

InitEnforcer ==
    /\ enf \in [resp : EnforcerResponses, before : EnforcerStates, done : {FALSE},
                 out : {EnfParked.out}]
    /\ AgentConstructed /\ env = DefaultEnv
    /\ trig = TrigParked
    /\ wallet = PayParked /\ ledger = PayParked /\ paylog = PayParked
    /\ store = StoreParked /\ cli = CliParked /\ sk = SkParked
    /\ a2a = A2aParked /\ reg = RegParked /\ bff = BffParked

\* enforcer_validator(llm_response, callback_context, session_state)
EnforcerCheck ==
    /\ ~enf.done
    /\ enf' = [enf EXCEPT !.done = TRUE, !.out = enforcer_validator(enf.resp, enf.before)]
    /\ UNCHANGED <<agentVars, trig, payVars, auxVars>>

NextEnforcer == EnforcerCheck

SpecEnforcer == InitEnforcer /\ [][NextEnforcer]_vars

(***************************************************************************)
(* The callback's control logic on enumerated inputs: _wrapped_callback is *)
(* applied once to a response, a SessionState, a ModeManager and a session *)
(* drawn from bounded sets.                                                *)
(***************************************************************************)
\* switch_mode(request_tool_list=True), as test_adaptive_agent.py:176 builds it.
QueryCall == Call("switch_mode", [none |-> FALSE, request_tool_list |-> TRUE])

\* ModeManagers the agent can hold: _requested_focus exists once a switch
\* was requested and is kept when the flag is cleared.
TriggerManagers ==
    {m \in [is_first_turn : BOOLEAN, switch_requested : BOOLEAN,
            requested_focus : {None, "files"}] :
        m.switch_requested => m.requested_focus # None}

TriggerResponses ==
    { Response(<<TextPart>>),
      Response(<<Call("read_file", EmptyArgs)>>),
      Response(<<SwitchCall("files")>>),
      Response(<<QueryCall>>),
      Response(<<SwitchCall("files"), Call("write_file", EmptyArgs)>>),
      Response(<<Call("planner", NoArgs), SwitchCall("files")>>) }

\* Text lengths around the point where a quarter of the characters is half
\* of max_context_tokens.
TurnChars == {1, 1999999, 2000000}
TriggerTurns == {UserTurn(n) : n \in TurnChars} \cup {CallTurn(1, 0)}
TriggerSessions == UNION {[1..n -> TriggerTurns] : n \in 0..MaxTurns}

InitTrigger ==
    /\ trig \in [resp : TriggerResponses,
                  pact : {NewSessionState, set_plan(NewSessionState, {"read_file"})},
                  mm : TriggerManagers, turns : TriggerSessions, done : {FALSE},
                  out : {TrigParked.out}, reset : {TrigParked.reset}]
    /\ AgentConstructed /\ env = DefaultEnv
    /\ enf = EnfParked
    /\ wallet = PayParked /\ ledger = PayParked /\ paylog = PayParked
    /\ store = StoreParked /\ cli = CliParked /\ sk = SkParked
    /\ a2a = A2aParked /\ reg = RegParked /\ bff = BffParked

\* _wrapped_callback(llm_response, callback_context)
TriggerCheck ==
    /\ ~trig.done
    /\ trig' = [trig EXCEPT !.done = TRUE,
                            !.out = wrapped_callback(trig.resp, trig.pact, trig.mm,
                                                     estimate_context_tokens(trig.turns))]
    /\ UNCHANGED <<agentVars, enf, payVars, auxVars>>

\* ModeManager.reset_session() on the manager the callback left behind.
ResetSession ==
    /\ trig.done /\ ~trig.reset.done
    /\ trig.out.result # "none"
    /\ trig' = [trig EXCEPT !.reset = [done |-> TRUE, mm |-> reset_session(trig.out.mm)]]
    /\ UNCHANGED <<agentVars, enf, payVars, auxVars>>

NextTrigger == TriggerCheck \/ ResetSession

SpecTrigger == InitTrigger /\ [][NextTrigger]_vars

\* _wrapped_callback lines 443-487 on the validator's outcome: a block
\* replaces the response; None, and an exception the outer handler catches,
\* let the response through.
callback_returns(v) == IF v.result = "block" THEN "replaced" ELSE "passed"

HasToolCall(resp) ==
    resp.content # None /\ \E i \in DOMAIN resp.parts : resp.parts[i].kind = "call"

IsEnforcerBlock(v) ==
    /\ v.result = "block"
    /\ v.block.kind = "block"
    /\ Len(v.block.parts) = 1
    /\ v.block.parts[1].kind = "text"
    /\ v.block.parts[1].text.marker = EnforcerMarker

PlannedNames(c) ==
    IF c.args.none \/ "allowed_tools" \notin DOMAIN c.args THEN {}
    ELSE IF c.args.allowed_tools.type = "str" THEN {c.args.allowed_tools.val}
    ELSE c.args.allowed_tools.val

\* The PlanPact in force when call k of a response is checked: the one the
\* session had, re-set by each planner call before k that names tools.
RECURSIVE PactAt(_, _, _)
PactAt(calls, st, k) ==
    IF k = 1 THEN st
    ELSE LET c == calls[k - 1]
             p == PactAt(calls, st, k - 1)
         IN IF c.name = "planner" /\ PlannedNames(c) # {}
            THEN [active_plan |-> TRUE, allowed_tools |-> PlannedNames(c) \cup PlanDefaults]
            ELSE p

OutsidePact(calls, st) ==
    {k \in DOMAIN calls : /\ calls[k].name # "planner"
                          /\ PactAt(calls, st, k).active_plan
                          /\ calls[k].name \notin PactAt(calls, st, k).allowed_tools}

FirstOf(S) == CHOOSE k \in S : \A j \in S : k <= j

\* C3: a response validated under an active PlanPact passes only if every
\* call other than planner is in the allowed set in force when it is
\* checked, and a response with a call outside that set is replaced by a
\* violation block that lists the allowed set.
C3_PlanPactEnforced ==
    (enf.done /\ enf.before.active_plan) =>
        LET calls == ToolCallsOf(enf.resp)
            outside == OutsidePact(calls, enf.before)
        IN /\ callback_returns(enf.out) = "passed" => outside = {}
           /\ outside # {} =>
                 /\ IsEnforcerBlock(enf.out)
                 /\ enf.out.block.parts[1].text.message =
                      ViolationMessage(calls[FirstOf(outside)].name,
                                       PactAt(calls, enf.before, FirstOf(outside)).allowed_tools)

\* The failing case of C3: a planner call with args None before a call
\* outside the plan; the validator raises and the response passes.
C3_RaisedAndPassed ==
    /\ enf.done
    /\ enf.before.active_plan
    /\ enf.out.result = "raise"
    /\ OutsidePact(ToolCallsOf(enf.resp), enf.before) # {}

(***************************************************************************)
(* Properties of the Mode and of the mode switch.                          *)
(***************************************************************************)
CoreTools == {"switch_mode", "planner", "list_skills", "enable_skill"}

\* C1: in every reachable Mode the exposed tool set contains switch_mode,
\* planner, list_skills and enable_skill.
C1_CoreToolsAlwaysExposed == CoreTools \subseteq ExposedNames

\* A Mode reached through an enable_skill and a mode switch whose meta-LLM
\* call failed or selected no tool.
C1_Witness ==
    /\ last.op = "switch"
    /\ ~last.answer.ok \/ last.answer.selected_tools = {}
    /\ active_skills # {}

\* C7: a mode switch whose meta-LLM call fails leaves the instruction, the
\* tool list, the MCP tool filter and the session's turns as they were
\* before the switch began.
C7_FailedMetaKeepsMode ==
    [][\A s \in Sessions :
         (pc[s] = "switching" /\ pc'[s] = "emit" /\ ~last'.answer.ok) =>
            /\ instruction' = instruction
            /\ tools' = tools
            /\ tool_filter' = swPre[s].mode.tool_filter
            /\ contents'[s] = contents[s]]_vars

\* The failing case of C7: the switch went through on a failed meta-LLM call.
C7_FailedMetaSwitched ==
    /\ last.op = "switch"
    /\ ~last.answer.ok
    /\ instruction.base = "continue"
    /\ contents[last.session] = << >>

\* C8: whenever an LLM request is built, the instruction, the tool list and
\* the MCP tool filter are together a Mode that a completed operation left,
\* also while a mode switch is suspended.
C8_RequestSeesWholeMode == last.op = "request" => Mode = committed

\* The failing case of C8: a request built while another session's switch
\* is suspended exposes the unfiltered MCP tool list of no complete Mode.
C8_RequestSeesMix ==
    /\ last.op = "request"
    /\ \E s \in Sessions : pc[s] = "switching"
    /\ tool_filter = NoFilter /\ ~committed.tool_filter.none
    /\ McpServerTools \subseteq ExposedNames

\* Every call turn of a session has its result turn after it.
Paired(cs) ==
    \A i \in DOMAIN cs :
        cs[i].kind = "call" =>
            Cardinality({j \in DOMAIN cs : j > i /\ cs[j].kind = "result"
                                            /\ cs[j].n = cs[i].n})
            >= Cardinality({j \in DOMAIN cs : j >= i /\ cs[j].kind = "call"
                                               /\ cs[j].n = cs[i].n})

C10_ExposedIsSelection ==
    (last.op = "switch" /\ last.answer.ok) =>
        ExposedNames = BuiltinNames
                         \cup (McpServerTools \cap last.answer.selected_tools)
                         \cup UNION {SkillTools(k) : k \in last.answer.selected_skills}

\* The failing case of C10: no tool selected, every MCP tool exposed.
C10_EmptySelectionExposesAll ==
    /\ last.op = "switch" /\ last.answer.ok
    /\ last.answer.selected_tools = {}
    /\ McpServerTools \subseteq ExposedNames

(***************************************************************************)
(* Paid tools and wallets (decorators.py, paid_tool.py, wallets/,          *)
(* wallet_manager.py, skills/solana_wallet, skills/symbol_wallet).         *)
(***************************************************************************)
\* price=10.0 of the paid tools (premium_service/tools.py:14).
Price == 10
\* SolanaWalletManager._mock_balance after construction.
MockBalance == 1000
\* Addresses. The first is SolanaWalletManager.get_address() in mock mode,
\* the default recipient of a paid tool; the second shares its first eight
\* characters (and first five); the third shares none.
AgentAddress == "MockSoLAddress1111"
NearAddress == "MockSoLAddress2222"
FarAddress == "ElsewhereAddress33"
Addresses == {AgentAddress, NearAddress, FarAddress}
\* recipient_address[:8] and recipient_address[:5]
Prefix8(r) == IF r \in {AgentAddress, NearAddress} THEN "MockSoLA" ELSE "Elsewher"
Prefix5(r) == IF r \in {AgentAddress, NearAddress} THEN "MockS" ELSE "Elsew"
Amounts == {5, 10, MockBalance}

\* Values of the payment_hash argument. kind is what the string starts
\* with, body what follows; "none" is an absent argument, "empty" is "".
NoHash == [kind |-> "none", body |-> << >>]
EmptyHash == [kind |-> "empty", body |-> << >>]
\* f"MockTx_{int(amount * 1e9)}_{recipient_address[:8]}"; the number is kept
\* in SOL, the amounts here being whole.
MockTxHash(amount, r) == [kind |-> "MockTx", body |-> <<amount, Prefix8(r)>>]
\* "MockTx_12345_Valid", a string no send produced (verify_scenario_3.py:54).
ForgedHash == [kind |-> "MockTx", body |-> <<12345, "Valid">>]
\* f"MOCK-TX-HASH-{int(amount)}-TO-{recipient_address[:5]}"
SymbolMockHash(amount, r) == [kind |-> "MOCK-TX-HASH", body |-> <<amount, Prefix5(r)>>]
\* The signature of the n-th transaction confirmed on a chain.
Signature(n) == [kind |-> "sig", body |-> <<n>>]
GarbageHash == [kind |-> "text", body |-> <<"abc">>]
\* Python truthiness of the argument.
Truthy(h) == h.kind \notin {"none", "empty"}

Tx(h, r, amount, chain) == [hash |-> h, to |-> r, amount |-> amount, chain |-> chain]
\* Symbol transactions of other senders that the node may know.
ForeignTxs == {Tx(Signature(90), FarAddress, 10, "symbol")}

\* SolanaWalletManager.verify_transaction: mock mode looks at the prefix
\* only; otherwise the signature must parse and the transaction exist.
solana_verify_transaction(w, L, h, r, amount) ==
    IF w.solana_mock THEN h.kind = "MockTx"
    ELSE h.kind = "sig" /\ \E tx \in L : tx.chain = "solana" /\ tx.hash = h

\* WalletManager.verify_transaction: mock mode accepts; otherwise the
\* confirmed transaction must carry at least the expected amount.
symbol_verify_transaction(w, L, h, r, amount) ==
    IF w.symbol_mock THEN TRUE
    ELSE \E tx \in L : tx.chain = "symbol" /\ tx.hash = h /\ tx.amount >= amount

\* A mutant of the decorator: a hash is taken on trust.
solana_paid_tool_Trusting(w, L, h) ==
    IF Truthy(h) THEN "ran" ELSE "PaymentRequired"

\* decorators.PaidToolWrapper's wrapper called with payment_hash h.
solana_paid_tool(w, L, h) ==
    IF Truthy(h)
    THEN IF ~solana_verify_transaction(w, L, h, AgentAddress, Price)
         THEN "PaymentRequired"
         ELSE "ran"
    ELSE "PaymentRequired"

\* symbol_wallet.paid_tool.PaidToolWrapper's wrapper called with payment_hash h.
symbol_paid_tool(w, L, h) ==
    IF ~Truthy(h) THEN "PaymentRequired"
    ELSE IF symbol_verify_transaction(w, L, h, AgentAddress, Price)
         THEN "ran"
         ELSE "InvalidPayment"

paid_tool(wrapper, w, L, h) ==
    IF wrapper = "solana" THEN solana_paid_tool(w, L, h) ELSE symbol_paid_tool(w, L, h)

\* The exception a wrapper leaves with: none when the tool ran.
NoError == [kind |-> "none"]

\* decorators.PaidToolWrapper: PaymentRequiredError for a missing hash and
\* for a hash that does not verify.
solana_paid_tool_error(w, L, h) ==
    IF Truthy(h)
    THEN IF ~solana_verify_transaction(w, L, h, AgentAddress, Price)
         THEN [kind |-> "PaymentRequired", price |-> Price, address |-> AgentAddress,
               reason |-> "verification failed"]
         ELSE NoError
    ELSE [kind |-> "PaymentRequired", price |-> Price, address |-> AgentAddress,
          reason |-> "payment required"]

\* symbol_wallet.paid_tool.PaidToolWrapper: its own PaymentRequiredError for
\* a missing hash, InvalidPaymentError for a hash that does not verify.
symbol_paid_tool_error(w, L, h) ==
    IF ~Truthy(h)
    THEN [kind |-> "SymbolPaymentRequired", price |-> Price, address |-> AgentAddress,
          reason |-> "payment required"]
    ELSE IF symbol_verify_transaction(w, L, h, AgentAddress, Price)
         THEN NoError
         ELSE [kind |-> "InvalidPayment", reason |-> "verification failed"]

paid_tool_error(wrapper, w, L, h) ==
    IF wrapper = "solana" THEN solana_paid_tool_error(w, L, h)
    ELSE symbol_paid_tool_error(w, L, h)

wallet_accepts(wrapper, w, L, h) ==
    IF wrapper = "solana" THEN solana_verify_transaction(w, L, h, AgentAddress, Price)
    ELSE symbol_verify_transaction(w, L, h, AgentAddress, Price)

\* SolanaWalletManager.send_transaction; sent says whether the network took
\* the transaction. Returns the wallet, the chain and the returned string.
solana_send_transaction(w, L, r, amount, sent) ==
    IF w.solana_mock
    THEN [wallet |-> [w EXCEPT !.balance = @ - amount],
          ledger |-> L \cup {Tx(MockTxHash(amount, r), r, amount, "solana")},
          ret |-> MockTxHash(amount, r)]
    ELSE IF sent
    THEN [wallet |-> [w EXCEPT !.balance = @ - amount],
          ledger |-> L \cup {Tx(Signature(Cardinality(L) + 1), r, amount, "solana")},
          ret |-> Signature(Cardinality(L) + 1)]
    ELSE [wallet |-> w, ledger |-> L, ret |-> [kind |-> "Error", body |-> << >>]]

\* _get_wallet (skills/solana_wallet/tools.py): the wallet manager is made
\* anew when mock mode is on and its balance is 0.
get_wallet(w) ==
    IF w.solana_mock /\ w.balance = 0 THEN [w EXCEPT !.balance = MockBalance] ELSE w

\* send_sol_payment (skills/solana_wallet/tools.py): the wallet is fetched,
\* its balance is checked, then the wallet sends.
send_sol_payment(w, L, r, amount, sent) ==
    LET w1 == get_wallet(w) IN
    IF w1.balance < amount
    THEN [wallet |-> w1, ledger |-> L, ret |-> [kind |-> "Error", body |-> << >>]]
    ELSE solana_send_transaction(w1, L, r, amount, sent)

\* check_solana_balance (skills/solana_wallet/tools.py): the wallet is
\* fetched and its get_balance() is reported.
check_solana_balance(w) == [wallet |-> get_wallet(w), balance |-> get_wallet(w).balance]

\* send_token (skills/symbol_wallet/tools.py) with WalletManager.send_transaction:
\* mock mode returns a made-up hash, otherwise nothing is sent.
send_token(w, L, r, amount) ==
    IF w.symbol_mock
    THEN [wallet |-> w, ledger |-> L, ret |-> SymbolMockHash(amount, r)]
    ELSE [wallet |-> w, ledger |-> L, ret |-> [kind |-> "Error", body |-> << >>]]

\* The errors a tool may raise: errors.PaymentRequiredError, the class of the
\* same name in symbol_wallet/paid_tool.py, and any other exception.
ToolErrors == {"PaymentRequired", "SymbolPaymentRequired", "other"}

\* A mutant of the error callback: a PaymentRequired error is paid at once.
on_tool_error_AutoPay(e, w, L, err) ==
    IF err = "PaymentRequired"
    THEN [result |-> "payment_info",
          wallet |-> solana_send_transaction(w, L, AgentAddress, Price, TRUE).wallet,
          ledger |-> solana_send_transaction(w, L, AgentAddress, Price, TRUE).ledger]
    ELSE [result |-> "error", wallet |-> w, ledger |-> L]

\* AdaptiveAgent._on_tool_error with PaymentHandler.format_payment_error:
\* the result handed to the model, and the wallet and chain it leaves.
on_tool_error(e, w, L, err) ==
    IF e.enable_ap2 /\ err = "PaymentRequired" /\ e.payment_handler
    THEN [result |-> "payment_info", wallet |-> w, ledger |-> L]
    ELSE [result |-> "error", wallet |-> w, ledger |-> L]

LiveBalances == {0, 15}
PayEnvs ==
    {[meta_client |-> TRUE, enable_ap2 |-> a, payment_handler |-> h] :
        a \in BOOLEAN, h \in BOOLEAN} \ {[meta_client |-> TRUE, enable_ap2 |-> FALSE,
                                           payment_handler |-> TRUE]}

\* The wallets after construction: SOLANA_USE_MOCK and SYMBOL_USE_MOCK as
\* deployed, the mock balance or the balance found on the chain.
InitPay ==
    /\ AgentConstructed
    /\ env \in PayEnvs
    /\ enf = EnfParked /\ trig = TrigParked
    /\ \E m \in BOOLEAN, y \in BOOLEAN, b \in LiveBalances :
         wallet = [solana_mock |-> m, symbol_mock |-> y,
                   balance |-> IF m THEN MockBalance ELSE b, sends |-> 0,
                   spent |-> 0]
    /\ ledger \in SUBSET ForeignTxs
    /\ paylog = [op |-> "init"]
    /\ store = StoreParked /\ cli = CliParked /\ sk = SkParked
    /\ a2a = A2aParked /\ reg = RegParked /\ bff = BffParked

HashInputs(L) ==
    {NoHash, EmptyHash, ForgedHash, GarbageHash, SymbolMockHash(10, AgentAddress)}
    \cup {tx.hash : tx \in L}

\* The errors a paid tool raises to ask for payment: errors.PaymentRequiredError
\* and symbol_wallet.paid_tool.PaymentRequiredError.
PaymentRequiredErrors == {"PaymentRequired", "SymbolPaymentRequired"}

\* The payment asked for by the step recorded in log: the wrapper, price and
\* address of the PaymentRequired error a paid tool has just raised.
Asked(log) ==
    IF log.op = "paid_call"
    THEN IF log.raised.kind \in PaymentRequiredErrors
         THEN [on |-> TRUE, wrapper |-> log.wrapper, price |-> log.raised.price,
               address |-> log.raised.address]
         ELSE [on |-> FALSE]
    ELSE [on |-> FALSE]

\* The step recorded in log ran the paid tool of this wrapper on hash h.
RanOn(log, wrapper, h) ==
    IF log.op = "paid_call"
    THEN log.outcome = "ran" /\ log.wrapper = wrapper /\ log.hash = h
    ELSE FALSE

\* The model calls a paid tool with a payment_hash argument.
PaidToolCall ==
    /\ \E wrapper \in {"solana", "symbol"}, h \in HashInputs(ledger) :
         paylog' = [op |-> "paid_call", wrapper |-> wrapper, hash |-> h,
                    outcome |-> paid_tool(wrapper, wallet, ledger, h),
                    raised |-> paid_tool_error(wrapper, wallet, ledger, h),
                    again |-> RanOn(paylog, wrapper, h)]
    /\ UNCHANGED <<wallet, ledger, agentVars, enf, trig, auxVars>>

\* A tool raised and ADK calls the agent's on_tool_error_callback.
OnToolError ==
    /\ \E err \in ToolErrors :
         LET r == on_tool_error(env, wallet, ledger, err) IN
         /\ paylog' = [op |-> "tool_error", error |-> err, result |-> r.result]
         /\ wallet' = r.wallet
         /\ ledger' = r.ledger
    /\ UNCHANGED <<agentVars, enf, trig, auxVars>>

\* The model calls send_sol_payment.
SendSolPayment ==
    /\ wallet.sends < MaxSends
    /\ \E r \in Addresses, amount \in Amounts, sent \in BOOLEAN :
         LET res == send_sol_payment(wallet, ledger, r, amount, sent) IN
         /\ wallet' = [res.wallet EXCEPT !.sends = @ + 1,
                                         !.spent = IF res.ret.kind = "Error" THEN @
                                                   ELSE @ + amount]
         /\ ledger' = res.ledger
         /\ paylog' = [op |-> "send", tool |-> "send_sol_payment", to |-> r,
                       amount |-> amount, ret |-> res.ret,
                       had |-> wallet.balance, asked |-> Asked(paylog)]
    /\ UNCHANGED <<agentVars, enf, trig, auxVars>>

\* The model calls send_token.
SendToken ==
    /\ wallet.sends < MaxSends
    /\ \E r \in Addresses, amount \in Amounts :
         LET res == send_token(wallet, ledger, r, amount) IN
         /\ wallet' = [res.wallet EXCEPT !.sends = @ + 1]
         /\ ledger' = res.ledger
         /\ paylog' = [op |-> "send", tool |-> "send_token", to |-> r,
                       amount |-> amount, ret |-> res.ret,
                       had |-> wallet.balance, asked |-> Asked(paylog)]
    /\ UNCHANGED <<agentVars, enf, trig, auxVars>>

\* The model calls check_solana_balance.
CheckSolanaBalance ==
    /\ wallet' = check_solana_balance(wallet).wallet
    /\ paylog' = [op |-> "balance", reported |-> check_solana_balance(wallet).balance,
                  had |-> wallet.balance]
    /\ UNCHANGED <<ledger, agentVars, enf, trig, auxVars>>

NextPay ==
    PaidToolCall \/ OnToolError \/ SendSolPayment \/ SendToken \/ CheckSolanaBalance

SpecPay == InitPay /\ [][NextPay]_vars

\* C4: a paid tool runs only on a call whose payment_hash is present and
\* accepted by the wallet's verify, and a call with a missing or empty
\* payment_hash raises PaymentRequired.
C4_RunsOnlyOnVerifiedHash ==
    paylog.op = "paid_call" =>
        /\ paylog.outcome = "ran" =>
              Truthy(paylog.hash)
              /\ wallet_accepts(paylog.wrapper, wallet, ledger, paylog.hash)
        /\ ~Truthy(paylog.hash) => paylog.outcome = "PaymentRequired"

\* A paid tool that ran on the hash of a payment the wallet sent, after a send.
C4_Witness ==
    /\ paylog.op = "paid_call"
    /\ paylog.outcome = "ran"
    /\ wallet.sends > 0
    /\ \E tx \in ledger : tx.hash = paylog.hash /\ tx.chain = "solana"

C6_RunsOnlyOnMatchingPayment ==
    (paylog.op = "paid_call" /\ paylog.outcome = "ran") =>
        \E tx \in ledger : /\ tx.hash = paylog.hash
                            /\ tx.to = AgentAddress
                            /\ tx.amount >= Price

\* The failing case of C6: the tool ran on a hash that no send produced.
C6_RanOnForgedHash ==
    /\ paylog.op = "paid_call" /\ paylog.outcome = "ran"
    /\ paylog.hash = ForgedHash
    /\ \A tx \in ledger : tx.hash # ForgedHash

(***************************************************************************)
(* Properties of the trigger predicate and of the callback's control flow. *)
(***************************************************************************)
\* A step in which session s's callback reached the trigger predicate.
TriggerEvaluated(s) ==
    /\ pc[s] = "llm"
    /\ last'.session = s
    /\ last'.op \in {"allowed", "switch_begin"}

\* The ModeManager that evaluation started from: the one before the step,
\* with the switch requests of the response recorded.
ManagerAtTrigger(s) == check_for_switch_request(ToolCallsOf(pending'[s]), mm)

\* should_switch returned true in that step.
ReturnedTrue == IF last'.op = "switch_begin" THEN TRUE ELSE last'.wanted

HalfWindow(count) == 2 * count >= max_context_tokens

\* C11: whenever the trigger is evaluated after the first turn with
\* switch_requested set, should_switch returns true and switch_requested is
\* false afterwards, whatever the token count.
C11_RequestedSwitchClearsFlag ==
    [][\A s \in Sessions :
         (/\ TriggerEvaluated(s)
          /\ ~ManagerAtTrigger(s).is_first_turn
          /\ ManagerAtTrigger(s).switch_requested)
         => (ReturnedTrue /\ ~mm'.switch_requested)]_vars

\* The failing case of C11: a mode switch begins on the token threshold and
\* the request flag is still set, so the next evaluation switches again.
C11_FlagSurvivesSwitch ==
    /\ last.op = "switch_begin"
    /\ mm.switch_requested
    /\ HalfWindow(estimate_context_tokens(contents[last.session]))

AsksSwitch(resp) ==
    \E i \in DOMAIN ToolCallsOf(resp) : ToolCallsOf(resp)[i].name = "switch_mode"

\* C13: after the first turn, the callback switches for every session whose
\* text characters, divided by 4, are at least half of max_context_tokens;
\* below that and with no switch requested it does not switch.
C13_ThresholdSwitches ==
    (trig.done /\ trig.out.result = "allow" /\ ~trig.mm.is_first_turn) =>
        LET count == TotalChars(trig.turns) \div 4 IN
        /\ HalfWindow(count) => trig.out.switch
        /\ (~HalfWindow(count) /\ ~trig.mm.switch_requested /\ ~AsksSwitch(trig.resp))
              => ~trig.out.switch

\* A session of exactly 2000000 characters, 500000 tokens, switches.
C13_Witness ==
    /\ trig.done /\ trig.out.result = "allow" /\ ~trig.mm.is_first_turn
    /\ TotalChars(trig.turns) = 2000000
    /\ ~trig.mm.switch_requested /\ ~AsksSwitch(trig.resp)
    /\ trig.out.switch

\* C14: a response whose only call is switch_mode(request_tool_list=True)
\* does not set switch_requested and, below the token threshold with no
\* switch requested before, does not start a mode switch.
C14_QueryDoesNotSwitch ==
    (trig.done /\ trig.resp = Response(<<QueryCall>>) /\ trig.out.result = "allow"
       /\ ~trig.mm.switch_requested) =>
        /\ ~trig.out.mm.switch_requested
        /\ ~HalfWindow(estimate_context_tokens(trig.turns)) => ~trig.out.switch

\* The failing case of C14: the query alone starts a mode switch.
C14_QuerySwitched ==
    /\ trig.done /\ trig.resp = Response(<<QueryCall>>)
    /\ ~trig.mm.is_first_turn /\ ~trig.mm.switch_requested
    /\ trig.turns = << >>
    /\ trig.out.switch

CallbackOps == {"blocked", "allowed", "switch_begin", "callback_raised"}

\* The response session s's callback handled in this step.
HandledResponse(s) == IF last'.op = "blocked" THEN last'.response ELSE pending'[s]

\* C15: a response validated in one session does not change the verdict
\* the Enforcer gives on any response in another session.
C15_PlanPactPerSession ==
    [][\A s \in Sessions, t \in Sessions :
         (s # t /\ pc[s] = "llm" /\ last'.session = s /\ last'.op \in CallbackOps) =>
            \A R \in AgentResponses :
               enforcer_validator(R, SessionStateFor(t)').result
                 = enforcer_validator(R, SessionStateFor(t)).result]_vars

\* The failing case of C15: a session that never made a tool call has a
\* response blocked for violating a plan.
C15_ForeignPlanBlocks ==
    /\ last.op = "blocked"
    /\ last.block.parts[1].text.message.what = "Violation"
    /\ clears[last.session] = 0
    /\ \A i \in DOMAIN contents[last.session] :
          contents[last.session][i].kind \in {"user", "block"}

\* The first response of a session's first turn is being handled.
FirstTurnOf(s) == clears[s] = 0 /\ Len(contents[s]) = 1

\* C16: a step of one session leaves the Mode every other session is
\* served with as it was, and the trigger does not switch on a session's
\* first turn.
C16_ModePerSession ==
    [][\A s \in Sessions :
         /\ last'.session = s => \A t \in Sessions \ {s} : ModeFor(t)' = ModeFor(t)
         /\ (TriggerEvaluated(s) /\ FirstTurnOf(s)) => ~ReturnedTrue]_vars

\* The failing case of C16: a mode switch begins on the first response of
\* a session's first turn, the ModeManager having seen another session.
C16_FirstTurnSwitched ==
    /\ last.op = "switch_begin"
    /\ FirstTurnOf(last.session)
    /\ \E t \in Sessions \ {last.session} : contents[t] # << >> \/ clears[t] > 0

\* C17: the PlanPact changes only in a callback whose response holds a
\* planner call with a non-empty allowed_tools, and then it is exactly that
\* call's names with the defaults; an active pact is never deactivated.
C17_OnlyPlannerChangesPact ==
    [][/\ pact.active_plan => pact'.active_plan
       /\ pact' # pact =>
            \E s \in Sessions :
               /\ pc[s] = "llm" /\ last'.session = s /\ last'.op \in CallbackOps
               /\ \E k \in DOMAIN ToolCallsOf(HandledResponse(s)) :
                     LET c == ToolCallsOf(HandledResponse(s))[k] IN
                     /\ c.name = "planner" /\ PlannedNames(c) # {}
                     /\ pact' = [active_plan |-> TRUE,
                                 allowed_tools |-> PlannedNames(c) \cup PlanDefaults]]_vars

\* A mode switch completed, the session was cleared, and the pact set
\* before is in force as it was.
C17_Witness ==
    /\ last.op = "switch"
    /\ pact = [active_plan |-> TRUE, allowed_tools |-> {"read_file"} \cup PlanDefaults]
    /\ contents[last.session] = << >>

\* The default allow-set as the specification lists it.
ListedDefaults == {"planner", "ask_question", "attempt_answer", "switch_mode", "system_retry"}

\* The planner calls of a response that name tools.
Planning(calls) ==
    {k \in DOMAIN calls : calls[k].name = "planner" /\ PlannedNames(calls[k]) # {}}

\* C18: after the planner calls of an allowed response the pact is active
\* with exactly the last call's names and the five listed defaults, and a
\* call that follows a planner call and is outside its set is blocked.
C18_AllowedSetIsPlanPlusFive ==
    enf.done =>
        LET calls == ToolCallsOf(enf.resp)
            K == Planning(calls)
        IN \A k \in K :
             LET allowed == PlannedNames(calls[k]) \cup ListedDefaults IN
             /\ (enf.out.result = "allow" /\ \A j \in K : j <= k) =>
                    enf.out.state = [active_plan |-> TRUE, allowed_tools |-> allowed]
             /\ \A j \in DOMAIN calls :
                   (/\ j > k /\ \A i \in K : ~(k < i /\ i < j)
                    /\ calls[j].name \notin allowed) => enf.out.result = "block"

\* The failing case of C18: deep_think, outside the plan and the listed
\* defaults, passes.
C18_DeepThinkPasses ==
    /\ enf.done
    /\ enf.resp = Response(<<PlannerCall({"read_file"}), Call("deep_think", EmptyArgs)>>)
    /\ enf.out.result = "allow"
    /\ "deep_think" \in enf.out.state.allowed_tools

\* The entries of the tool list that expose name n.
Sources(n) == {i \in DOMAIN tools : n \in ExposedBy(tools[i], tool_filter)}

\* C19: every exposed tool name is exposed by exactly one entry of the
\* tool list.
C19_NamesResolveOnce == \A n \in ExposedNames : Cardinality(Sources(n)) = 1

\* The failing case of C19: after a mode switch planner is exposed by the
\* built-in tool and by the MCP toolset.
C19_PlannerTwice ==
    /\ last.op = "switch"
    /\ \E i \in Sources("planner") : tools[i].kind = "fn"
    /\ \E i \in Sources("planner") : tools[i].kind = "orig"
(***************************************************************************)
(* Properties of the path from the model's response to the tools.          *)
(***************************************************************************)
\* C21: a response goes on to tool dispatch only when the Enforcer allowed
\* it; a response on which the callback raised is not passed on.
C21_DispatchOnlyAfterAllowed ==
    [][\A s \in Sessions :
         (pc[s] = "llm" /\ pc'[s] \in {"emit", "switching"}) =>
            enforcer_validator(pending'[s], pact).result = "allow"]_vars

\* The failing case of C21: the validator raised on a response whose
\* write_file call is outside the plan, and the call is being dispatched.
C21_RaisedAndDispatched ==
    \E s \in Sessions :
        /\ pc[s] = "tools"
        /\ pending[s] = Response(<<Call("planner", NoArgs), Call("write_file", EmptyArgs)>>)
        /\ enforcer_validator(pending[s], pact).result = "raise"
        /\ pact.active_plan /\ "write_file" \notin pact.allowed_tools

(***************************************************************************)
(* Properties of the payment errors and of the pay-then-retry exchange.    *)
(***************************************************************************)
\* C22: the error callback answers every tool error with an error result,
\* and with the payment envelope for every PaymentRequired a paid tool
\* raised while the payment protocol is enabled.
C22_PaymentRequiredGetsEnvelope ==
    paylog.op = "tool_error" =>
        /\ paylog.result \in {"error", "payment_info"}
        /\ (env.enable_ap2 /\ paylog.error \in PaymentRequiredErrors) =>
               paylog.result = "payment_info"

\* The failing case of C22: with the protocol enabled and the handler in
\* place, the PaymentRequired of the Symbol wrapper gets the plain error.
C22_SymbolErrorWithoutEnvelope ==
    /\ paylog.op = "tool_error"
    /\ env.enable_ap2 /\ env.payment_handler
    /\ paylog.error = "SymbolPaymentRequired"
    /\ paylog.result = "error"

\* C23: a call with a payment_hash the wallet does not verify does not run
\* the tool and raises the error a missing payment raises, with price and
\* recipient and the reason verification failed.
C23_UnverifiedHashAsksAgain ==
    (/\ paylog.op = "paid_call"
     /\ Truthy(paylog.hash)
     /\ ~wallet_accepts(paylog.wrapper, wallet, ledger, paylog.hash)) =>
        /\ paylog.outcome # "ran"
        /\ paylog.raised.kind =
               paid_tool_error(paylog.wrapper, wallet, ledger, NoHash).kind
        /\ paylog.raised.reason = "verification failed"
        /\ paylog.raised.price = Price
        /\ paylog.raised.address = AgentAddress

\* The failing case of C23: the Symbol wrapper, given a hash its wallet
\* does not verify, raises InvalidPaymentError.
C23_SymbolRaisesInvalidPayment ==
    /\ paylog.op = "paid_call"
    /\ paylog.wrapper = "symbol"
    /\ Truthy(paylog.hash)
    /\ ~wallet_accepts("symbol", wallet, ledger, paylog.hash)
    /\ paylog.outcome = "InvalidPayment"
    /\ paylog.raised.kind = "InvalidPayment"

\* What a send-payment tool returned is a transaction hash.
IsSignature(h) == h.kind \in {"MockTx", "sig", "MOCK-TX-HASH"}

\* The balance the send-payment tool checked was enough; send_token checks
\* none.
SufficientBalance == paylog.tool = "send_sol_payment" => paylog.had >= paylog.amount

\* C24: after a paid tool asked for price p to recipient R, a send-payment
\* call for (R, p) with sufficient balance returns a transaction hash, and
\* the same tool called with that hash as payment_hash runs.
C24_PayThenRetryRuns ==
    (/\ paylog.op = "send"
     /\ paylog.asked.on
     /\ paylog.to = paylog.asked.address /\ paylog.amount = paylog.asked.price
     /\ SufficientBalance) =>
        /\ IsSignature(paylog.ret)
        /\ paid_tool(paylog.asked.wrapper, wallet, ledger, paylog.ret) = "ran"

\* The failing case of C24: the Symbol wallet outside mock mode; the tool
\* wrapped by the Symbol wrapper asked for payment, send_token was called
\* for it and returned no hash, and the retry with what it returned does
\* not run.
C24_SymbolSendReturnsNoHash ==
    /\ paylog.op = "send" /\ paylog.tool = "send_token"
    /\ paylog.asked.on /\ paylog.asked.wrapper = "symbol"
    /\ paylog.to = paylog.asked.address /\ paylog.amount = paylog.asked.price
    /\ ~wallet.symbol_mock
    /\ ~IsSignature(paylog.ret)
    /\ paid_tool("symbol", wallet, ledger, paylog.ret) = "InvalidPayment"

\* C25: a send_sol_payment call checks and debits in one step: the balance
\* it leaves is the balance it found less its amount when it returned a
\* transaction hash, the balance it found otherwise, and never below zero.
C25_CheckAndDebitAreOneStep ==
    (paylog.op = "send" /\ paylog.tool = "send_sol_payment") =>
        /\ wallet.balance >= 0
        /\ wallet.balance = IF IsSignature(paylog.ret)
                            THEN paylog.had - paylog.amount
                            ELSE paylog.had

\* The failing case of C25: the mock wallet had sent its whole balance; the
\* next send_sol_payment call found balance 0, returned a hash and left
\* the full mock balance less its amount.
C25_SpentWalletIsRefilled ==
    /\ paylog.op = "send" /\ paylog.tool = "send_sol_payment"
    /\ wallet.solana_mock
    /\ paylog.had = 0
    /\ paylog.amount < MockBalance
    /\ IsSignature(paylog.ret)
    /\ wallet.balance = MockBalance - paylog.amount
    /\ \E tx \in ledger : tx.chain = "solana" /\ tx.amount = MockBalance

(***************************************************************************)
(* Properties of what a mode switch leaves behind.                         *)
(***************************************************************************)
\* C26: for every JSON answer of the meta-LLM, generate_mode_config returns
\* the selected tool and skill names, and after the switch the MCP tool
\* filter is the selected tools and the active skills are the selected
\* skills.
C26_SelectionRoundTrips ==
    (last.op = "switch" /\ last.answer.ok) =>
        /\ generate_mode_config(last.answer).tools = last.answer.selected_tools
        /\ generate_mode_config(last.answer).skills = last.answer.selected_skills
        /\ tool_filter = Filter(last.answer.selected_tools)
        /\ active_skills = last.answer.selected_skills

\* The failing case of C26: the answer selected two tools and the skill
\* premium_service; the filter is the two tools, and premium_service is not
\* among the active skills.
C26_SelectedSkillNotActive ==
    /\ last.op = "switch" /\ last.answer.ok
    /\ last.answer.selected_skills = {"premium_service"}
    /\ generate_mode_config(last.answer).skills = {"premium_service"}
    /\ tool_filter = Filter({"write_file", "switch_mode"})
    /\ "premium_service" \notin active_skills

(***************************************************************************)
(* The history clear of _perform_mode_switch on enumerated session         *)
(* objects: the session's contents attribute refers to an object of the    *)
(* heap, which another holder may refer to as well.                        *)
(***************************************************************************)
Containers == {"c1", "c2"}
ContainerKinds == {"list", "other"}
Unused == [kind |-> "unused", items |-> << >>]

\* A session whose contents attribute refers to object ref (None: it has no
\* such attribute), with a second reference alias to the same object.
SessionObject(ref, alias, kind, items) ==
    [contents |-> ref, alias |-> alias,
     heap |-> [c \in Containers |->
                 IF c = "c1" /\ ref # None THEN [kind |-> kind, items |-> items]
                 ELSE Unused]]

SessionObjects ==
    {SessionObject(None, None, "list", << >>)}
    \cup {SessionObject("c1", a, k, q) :
            a \in {None, "c1"}, k \in ContainerKinds, q \in TriggerSessions}

\* A mutant of the clear: the attribute is assigned a fresh empty list.
clear_session_history_Reassign(o) ==
    IF o.contents = None THEN o
    ELSE IF o.heap[o.contents].kind = "list"
         THEN [o EXCEPT !.contents = "c2",
                        !.heap["c2"] = [kind |-> "list", items |-> << >>]]
         ELSE o

\* _perform_mode_switch lines 698-722: contents.clear() when the session has
\* a contents attribute that is a list; otherwise a warning and no change.
clear_session_history(o) ==
    IF o.contents = None THEN o
    ELSE IF o.heap[o.contents].kind = "list"
         THEN [o EXCEPT !.heap[o.contents].items = ClearHistory(@)]
         ELSE o

InitClear ==
    /\ store \in [before : SessionObjects, after : {SessionObject(None, None, "list", << >>)},
                   done : {FALSE}]
    /\ AgentConstructed /\ env = DefaultEnv
    /\ enf = EnfParked /\ trig = TrigParked
    /\ wallet = PayParked /\ ledger = PayParked /\ paylog = PayParked
    /\ cli = CliParked /\ sk = SkParked
    /\ a2a = A2aParked /\ reg = RegParked /\ bff = BffParked

\* The end of a mode switch that went through: the session history is cleared.
ClearSessionHistory ==
    /\ ~store.done
    /\ store' = [store EXCEPT !.done = TRUE, !.after = clear_session_history(store.before)]
    /\ UNCHANGED <<agentVars, enf, trig, payVars, cli, sk, hostVars>>

NextClear == ClearSessionHistory

SpecClear == InitClear /\ [][NextClear]_vars

MAX_ENFORCER_RETRIES == 3
MaxInputs == 2
MaxAsks == 2

\* Parts of the events /run returns: model text, with or without the
\* [ENFORCER_BLOCKED] marker, and function calls.
CliText(marker) == [kind |-> "text", marker |-> marker]
ConfirmCall(id, name) ==
    [kind |-> "functionCall", name |-> "adk_request_confirmation", id |-> id,
     original |-> [name |-> name, args |-> <<"args of", name>>]]
OtherCall == [kind |-> "functionCall", name |-> "transfer_to_agent", id |-> "fc9",
              original |-> [name |-> None, args |-> None]]
CliParts ==
    {CliText(TRUE), CliText(FALSE), ConfirmCall("fc1", "write_file"),
     ConfirmCall("fc2", "run_command"), OtherCall}
CliResponses == UNION {[1..n -> CliParts] : n \in 0..MaxParts}

\* The parts that are adk_request_confirmation calls (client.py:124-126).
ConfirmIndexes(R) ==
    {i \in DOMAIN R : R[i].kind = "functionCall" /\ R[i].name = "adk_request_confirmation"}
FirstConfirm(R) == R[CHOOSE i \in ConfirmIndexes(R) : \A j \in ConfirmIndexes(R) : i <= j]

NoResult == [status |-> "none", response |-> << >>]
\* run_task lines 117-140: what it returns for the events R.
run_task_result(R) ==
    IF ConfirmIndexes(R) # {}
    THEN [status |-> "needs_approval",
          tool_call |-> [tool_name |-> FirstConfirm(R).original.name,
                         tool_args |-> FirstConfirm(R).original.args,
                         tool_call_id |-> FirstConfirm(R).id],
          response |-> R]
    ELSE [status |-> "events", response |-> R]

\* run_task lines 77-107: the new_message of the request.
TextMessage(prompt) == <<[kind |-> "text", text |-> prompt]>>
ApprovalMessage(call, approved) ==
    <<[kind |-> "functionResponse", id |-> call.tool_call_id,
       name |-> "adk_request_confirmation", confirmed |-> approved]>>

\* _extract_response_text and lines 281-290, as far as the marker test sees
\* it: "events" is the list a needs_approval result yields, in which the
\* marker is never an element.
final_output(res) ==
    IF res.status = "needs_approval" THEN "events"
    ELSE IF \E i \in DOMAIN res.response :
              res.response[i].kind = "text" /\ res.response[i].marker
         THEN "blocked"
         ELSE IF \E i \in DOMAIN res.response : res.response[i].kind = "text"
              THEN "clean" ELSE "empty"

\* A mutant of the loop condition: one retry more.
retry_needed_OneMore(out, retries) ==
    out = "blocked" /\ retries <= MAX_ENFORCER_RETRIES

\* main.py:294, the condition of the retry loop.
retry_needed(out, retries) ==
    out = "blocked" /\ retries < MAX_ENFORCER_RETRIES

\* Where the loop goes on a result of a user prompt or of an approval
\* (lines 243 and 281-294).
AfterRun(res) ==
    IF res.status = "needs_approval" THEN "confirm"
    ELSE IF retry_needed(final_output(res), 0) THEN "retry" ELSE "show"

CliStart ==
    [pc |-> "prompt", inputs |-> 0, asks |-> 0, retries |-> 0, out |-> "empty",
     result |-> NoResult, answered |-> NoResult, sent |-> << >>,
     decision |-> "none", failed |-> FALSE]

InitCli ==
    /\ cli = CliStart
    /\ AgentConstructed /\ env = DefaultEnv
    /\ enf = EnfParked /\ trig = TrigParked
    /\ wallet = PayParked /\ ledger = PayParked /\ paylog = PayParked
    /\ store = StoreParked /\ sk = SkParked
    /\ a2a = A2aParked /\ reg = RegParked /\ bff = BffParked

\* The request raised (ConnectionError): the handler of the chat loop prints
\* the error and the loop asks for the next input (lines 330-331).
RequestFailed(message, decision) ==
    [cli EXCEPT !.pc = "prompt", !.sent = message, !.answered = cli.result,
                !.result = NoResult, !.decision = decision]

\* The user typed a prompt; run_task sends it (lines 211-240).
CliPrompt ==
    /\ cli.pc = "prompt"
    /\ cli.inputs < MaxInputs
    /\ \/ cli' = [RequestFailed(TextMessage("user"), "none") EXCEPT
                     !.inputs = @ + 1, !.asks = 0, !.retries = 0, !.failed = FALSE]
       \/ \E R \in CliResponses :
            LET res == run_task_result(R) IN
            cli' = [cli EXCEPT !.pc = AfterRun(res), !.inputs = @ + 1, !.asks = 0,
                               !.retries = 0, !.out = final_output(res),
                               !.result = res, !.answered = cli.result,
                               !.sent = TextMessage("user"), !.decision = "none",
                               !.failed = FALSE]
    /\ UNCHANGED <<agentVars, enf, trig, payVars, store, sk, hostVars>>

\* The user approved or denied; run_task sends the decision (lines 243-278).
CliConfirm ==
    /\ cli.pc = "confirm"
    /\ cli.asks < MaxAsks
    /\ \E approved \in BOOLEAN :
         LET message == ApprovalMessage(cli.result.tool_call, approved)
             decision == IF approved THEN "approve" ELSE "deny"
         IN \/ cli' = [RequestFailed(message, decision) EXCEPT !.asks = @ + 1]
            \/ \E R \in CliResponses :
                 LET res == run_task_result(R) IN
                 cli' = [cli EXCEPT !.pc = AfterRun(res), !.asks = @ + 1,
                                    !.out = final_output(res), !.result = res,
                                    !.answered = cli.result, !.sent = message,
                                    !.decision = decision]
    /\ UNCHANGED <<agentVars, enf, trig, payVars, store, sk, hostVars>>

\* One round of the retry loop (lines 294-311).
CliRetry ==
    /\ cli.pc = "retry"
    /\ \/ cli' = [RequestFailed(TextMessage("retry"), "none") EXCEPT !.retries = @ + 1]
       \/ \E R \in CliResponses :
            LET res == run_task_result(R)
                out == final_output(res)
            IN cli' = [cli EXCEPT !.retries = @ + 1, !.out = out, !.result = res,
                                  !.answered = cli.result,
                                  !.sent = TextMessage("retry"), !.decision = "none",
                                  !.pc = IF retry_needed(out, cli.retries + 1)
                                         THEN "retry" ELSE "show"]
    /\ UNCHANGED <<agentVars, enf, trig, payVars, store, sk, hostVars>>

\* Lines 313-324: the failure is reported when the marker is still there,
\* and the output is shown.
CliShow ==
    /\ cli.pc = "show"
    /\ cli' = [cli EXCEPT !.pc = "prompt", !.failed = (cli.out = "blocked")]
    /\ UNCHANGED <<agentVars, enf, trig, payVars, store, sk, hostVars>>

NextCli == CliPrompt \/ CliConfirm \/ CliRetry \/ CliShow

SpecCli == InitCli /\ [][NextCli]_vars

\* Every /run request returns or raises within its timeout (client.py:110-115),
\* so a round of the retry loop and the display that follows do happen.
SpecCliFair == SpecCli /\ WF_vars(CliRetry) /\ WF_vars(CliShow)

\* C28: when the response a request answers holds an adk_request_confirmation
\* call, the client reported needs_approval with the original tool's name
\* and arguments, and the request carries exactly one functionResponse,
\* named adk_request_confirmation, with the call's id and confirmed equal
\* to the user's decision. Of several such calls the first is meant.
C28_ConfirmationIsAnswered ==
    ConfirmIndexes(cli.answered.response) # {} =>
        LET fc == FirstConfirm(cli.answered.response) IN
        /\ cli.answered.status = "needs_approval"
        /\ cli.answered.tool_call.tool_name = fc.original.name
        /\ cli.answered.tool_call.tool_args = fc.original.args
        /\ Len(cli.sent) = 1
        /\ cli.sent[1].kind = "functionResponse"
        /\ cli.sent[1].name = "adk_request_confirmation"
        /\ cli.sent[1].id = fc.id
        /\ cli.decision \in {"approve", "deny"}
        /\ cli.sent[1].confirmed = (cli.decision = "approve")

\* The failing case of C28: the answer to a retry prompt asked for a
\* confirmation; the user was never asked, and the next request is the
\* text of the next user input.
C28_ConfirmationInRetryIgnored ==
    /\ cli.answered.status = "needs_approval"
    /\ cli.answered.tool_call.tool_call_id = "fc1"
    /\ cli.retries = 0 /\ cli.inputs = 2
    /\ cli.sent = TextMessage("user")
    /\ cli.decision = "none"

\* C29: the retry prompt is sent only while the latest output carries the
\* marker and fewer than MAX_ENFORCER_RETRIES retries were made, each retry
\* counts, the failure is reported exactly when the output shown still
\* carries the marker, which is after MAX_ENFORCER_RETRIES retries, and the
\* retry loop ends.
C29_RetryLoopIsBounded ==
    /\ [](cli.retries <= MAX_ENFORCER_RETRIES)
    /\ [](cli.pc = "retry" =>
             (cli.out = "blocked" /\ cli.retries < MAX_ENFORCER_RETRIES))
    /\ []((cli.pc = "show" /\ cli.out = "blocked") =>
             cli.retries = MAX_ENFORCER_RETRIES)
    /\ [][/\ (cli.pc = "retry" /\ cli' # cli) =>
                 (cli'.retries = cli.retries + 1 /\ cli'.sent = TextMessage("retry"))
          /\ (cli.pc # "retry" /\ cli' # cli /\ cli.pc # "show") =>
                 cli'.sent # TextMessage("retry")
          /\ (cli.pc = "show" /\ cli' # cli) =>
                 (cli'.failed = (cli.out = "blocked") /\ cli'.sent = cli.sent)]_vars
    /\ (cli.pc = "retry") ~> (cli.pc = "prompt")

\* Three retries all blocked: the failure was reported and the loop is back
\* at the prompt.
C29_Witness ==
    /\ cli.pc = "prompt"
    /\ cli.retries = MAX_ENFORCER_RETRIES
    /\ cli.out = "blocked"
    /\ cli.failed
    /\ cli.sent = TextMessage("retry")

(***************************************************************************)
(* enable_skill applied once to a name and an agent drawn from bounded     *)
(* sets.                                                                   *)
(***************************************************************************)
\* The skill_name arguments: remote tools of the MCP server, curated skills
\* and a name nobody knows.
SkillArgs == {"read_file", "planner", "premium_service", "solana_wallet", "nothing"}

\* The agents enable_skill may find: before or after a mode switch, with the
\* remote tools looked up or not, with skills and tools already enabled.
SkillAgents ==
    {a \in [instruction : {[base |-> "initial", skills |-> << >>]},
            tools : {builtin_tools, NewToolList(TRUE)},
            active_skills : {{}, {"read_file"}, {"premium_service"}},
            remote_tools : {{}, McpServerTools},
            enable_ap2 : BOOLEAN,
            meta_client : {TRUE}] :
        a.active_skills \subseteq SkillNames \cup a.remote_tools}

InitSkill ==
    /\ \E n \in SkillArgs, a \in SkillAgents :
         \E ch \in ChoicesFor(<<EnableCall(n)>>, a) :
            sk = [name |-> n, agent |-> a, ch |-> ch, done |-> FALSE,
                  loaded |-> a, out |-> [ret |-> "none", a |-> a]]
    /\ AgentConstructed /\ env = DefaultEnv
    /\ enf = EnfParked /\ trig = TrigParked
    /\ wallet = PayParked /\ ledger = PayParked /\ paylog = PayParked
    /\ store = StoreParked /\ cli = CliParked
    /\ a2a = A2aParked /\ reg = RegParked /\ bff = BffParked

\* The model calls enable_skill(skill_name).
EnableSkill ==
    /\ ~sk.done
    /\ LET a1 == ensure_remote_tools_loaded(sk.agent, sk.ch.loadOk, sk.ch.clientOk) IN
       sk' = [sk EXCEPT !.done = TRUE, !.loaded = a1,
                        !.out = enable_skill(sk.name, a1, sk.ch.localOk, sk.ch.mcpOk,
                                             sk.ch.walletOk)]
    /\ UNCHANGED <<agentVars, enf, trig, payVars, store, cli, hostVars>>

NextSkill == EnableSkill

SpecSkill == InitSkill /\ [][NextSkill]_vars

\* C30: enable_skill on a discovered remote tool that is no curated skill
\* and not yet active, with the MCP server reachable, returns enabled,
\* appends the tool's block to the instruction, records the name as active
\* and appends an MCP toolset whose filter is the one name.
C30_RemoteToolIsEnabled ==
    (/\ sk.done
     /\ sk.name \in sk.loaded.remote_tools
     /\ sk.name \notin SkillNames
     /\ sk.name \notin sk.loaded.active_skills
     /\ sk.ch.mcpOk) =>
        /\ sk.out.ret = "enabled"
        /\ sk.out.a.instruction = AddSkillText(sk.loaded.instruction, sk.name)
        /\ sk.out.a.active_skills = sk.loaded.active_skills \cup {sk.name}
        /\ sk.out.a.tools = Append(sk.loaded.tools, NewToolset({sk.name}))

\* The failing case of C30: read_file, a remote tool, was recorded as active
\* and its block appended, and enable_skill returned the missing-directory
\* error without adding a toolset.
C30_RemoteToolNotAdded ==
    /\ sk.done
    /\ sk.name = "read_file"
    /\ "read_file" \in sk.loaded.remote_tools
    /\ "read_file" \notin sk.loaded.active_skills
    /\ sk.ch.mcpOk
    /\ sk.out.ret = "no_skill_dir"
    /\ "read_file" \in sk.out.a.active_skills
    /\ sk.out.a.instruction = AddSkillText(sk.loaded.instruction, "read_file")
    /\ sk.out.a.tools = sk.loaded.tools

(***************************************************************************)
(* Frame of a blocked response.                                            *)
(***************************************************************************)
\* C34: when the Enforcer blocks a response the SessionState is the one it
\* had before the response: a planner call of the blocked response has not
\* changed the plan in force.
C34_BlockLeavesPlanPact ==
    (enf.done /\ enf.out.result = "block") => enf.out.state = enf.before

\* The failing case of C34: a response carries a planner call and then a
\* call the new plan does not allow; the response is blocked and the
\* SessionState is the plan the blocked planner call set.
C34_BlockedPlannerSetPlan ==
    /\ enf.done
    /\ enf.before = NewSessionState
    /\ enf.resp = Response(<<PlannerCall({"read_file"}), Call("write_file", EmptyArgs)>>)
    /\ enf.out.result = "block"
    /\ enf.out.state = set_plan(NewSessionState, {"read_file"})

(***************************************************************************)
(* Error returns of enable_skill.                                          *)
(***************************************************************************)
\* C36: when enable_skill returns an error (name not found, skill directory
\* not found, MCP toolset not created) the instruction, the active skills
\* and the tools are those from before the call, and a later call with the
\* same name is not answered already active.
C36_ErrorLeavesAgent ==
    (sk.done /\ sk.out.ret \in {"not_found", "no_skill_dir", "mcp_failed"}) =>
        /\ sk.out.a.instruction = sk.agent.instruction
        /\ sk.out.a.active_skills = sk.agent.active_skills
        /\ sk.out.a.tools = sk.agent.tools
        /\ enable_skill(sk.name, sk.out.a, TRUE, TRUE, TRUE).ret # "already_active"

\* The failing case of C36: the MCP toolset for premium_service could not be
\* created; the call returned the error with the skill recorded as active
\* and its block in the instruction, and a later call is answered already
\* active.
C36_FailedSkillStaysActive ==
    /\ sk.done
    /\ sk.name = "premium_service"
    /\ "premium_service" \notin sk.agent.active_skills
    /\ sk.out.ret = "mcp_failed"
    /\ "premium_service" \in sk.out.a.active_skills
    /\ sk.out.a.instruction = AddSkillText(sk.agent.instruction, "premium_service")
    /\ enable_skill(sk.name, sk.out.a, TRUE, TRUE, TRUE).ret = "already_active"

(***************************************************************************)
(* Active skills and the tool list.                                        *)
(***************************************************************************)
\* C35: every skill or remote tool recorded as active has its tools among
\* the names an LLM request carries; so whenever enable_skill would answer
\* already active, also after a mode switch, the skill's tools are exposed.
C35_ActiveSkillsAreExposed ==
    \A k \in active_skills :
        (IF k \in SkillNames THEN SkillTools(k) ELSE {k}) \subseteq ExposedNames

\* The failing case of C35: premium_service was enabled, a mode switch
\* replaced the tool list, enable_skill answers already active and
\* perform_premium_analysis is not exposed.
C35_ActiveSkillLostItsTools ==
    /\ last.op = "switch"
    /\ "premium_service" \in active_skills
    /\ "perform_premium_analysis" \notin ExposedNames
    /\ enable_skill("premium_service", AgentRec, TRUE, TRUE, TRUE).ret = "already_active"

(***************************************************************************)
(* Switch requests and switch attempts.                                    *)
(***************************************************************************)
\* C37: a switch_mode call in a response the Enforcer allows is not lost.
\* When the trigger is evaluated after the first turn for a response that
\* carries a switch_mode call, or with the request flag set by an earlier
\* call, the mode switch begins in that callback; and the request flag is
\* cleared only in a callback in which the mode switch begins.
C37_SwitchRequestIsAttempted ==
    [][\A s \in Sessions :
         TriggerEvaluated(s) =>
           /\ (~mm.is_first_turn /\ ManagerAtTrigger(s).switch_requested)
                 => last'.op = "switch_begin"
           /\ (ManagerAtTrigger(s).switch_requested /\ ~mm'.switch_requested)
                 => last'.op = "switch_begin"]_vars

\* The failing case of C37: the meta-LLM client was lost, an allowed
\* response carried a switch_mode call after the first turn, the request
\* flag was cleared and no mode switch began.
C37_RequestConsumedAndSkipped ==
    /\ last.op = "allowed" /\ last.wanted
    /\ ~env.meta_client
    /\ AsksSwitch(pending[last.session])
    /\ ~mm.is_first_turn /\ ~mm.switch_requested
    /\ pc[last.session] = "emit"

(***************************************************************************)
(* The focus of a mode switch.                                             *)
(***************************************************************************)
\* C38: the focus _perform_mode_switch reads is the new_focus of the
\* switch_mode call that requested the switch; a switch that no call
\* requested (token threshold only) finds no focus, and reset_session leaves
\* no focus and no flag behind.
C38_FocusBelongsToRequest ==
    /\ (trig.done /\ trig.out.switch) =>
          LET calls == ToolCallsOf(trig.resp) IN
          /\ \A i \in DOMAIN calls :
                calls[i].name = "switch_mode" =>
                    trig.out.mm.requested_focus = NewFocusArg(calls[i].args)
          /\ (~AsksSwitch(trig.resp) /\ ~trig.mm.switch_requested) =>
                trig.out.mm.requested_focus = None
    /\ trig.reset.done =>
          /\ trig.reset.mm.is_first_turn /\ ~trig.reset.mm.switch_requested
          /\ trig.reset.mm.requested_focus = None

\* The failing case of C38: an earlier request left the focus "files" and
\* its flag was cleared; a response without a switch_mode call crosses the
\* token threshold and the switch reads the focus "files", which
\* reset_session then leaves in place.
C38_ThresholdSwitchWithOldFocus ==
    /\ trig.done /\ trig.out.switch
    /\ trig.resp = Response(<<Call("read_file", EmptyArgs)>>)
    /\ ~trig.mm.is_first_turn /\ ~trig.mm.switch_requested
    /\ trig.mm.requested_focus = "files"
    /\ HalfWindow(estimate_context_tokens(trig.turns))
    /\ trig.out.mm.requested_focus = "files"
    /\ trig.reset.done
    /\ trig.reset.mm.requested_focus = "files"

(***************************************************************************)
(* One payment, one execution.                                             *)
(***************************************************************************)
\* C33: a payment hash authorizes one execution of a paid tool: a call
\* with the hash the tool has just run on raises PaymentRequired and does
\* not run the tool again.
C33_HashRunsToolOnce ==
    (paylog.op = "paid_call" /\ paylog.again) =>
        /\ paylog.outcome = "PaymentRequired"
        /\ paylog.raised.kind = "PaymentRequired"

\* The failing case of C33: the wallet sent one payment, and the paid tool
\* ran a second time on the hash of that payment.
C33_SecondRunOnSameHash ==
    /\ paylog.op = "paid_call" /\ paylog.wrapper = "solana"
    /\ paylog.again
    /\ paylog.outcome = "ran"
    /\ wallet.sends = 1
    /\ \E tx \in ledger : tx.chain = "solana" /\ tx.hash = paylog.hash

(***************************************************************************)
(* The mock balance.                                                       *)
(***************************************************************************)
\* C39: in mock mode check_solana_balance reports the initial balance less
\* the amounts the successful send_sol_payment calls sent, also when that
\* is 0; and a send_sol_payment call for more than the balance returns an
\* error and leaves the balance as it was.
C39_MockBalanceIsInitialLessSent ==
    /\ (paylog.op = "balance" /\ wallet.solana_mock) =>
          paylog.reported = MockBalance - wallet.spent
    /\ (/\ paylog.op = "send" /\ paylog.tool = "send_sol_payment"
        /\ wallet.solana_mock
        /\ paylog.amount > paylog.had) =>
          (paylog.ret.kind = "Error" /\ wallet.balance = paylog.had)

\* The failing case of C39: the whole mock balance was sent, and
\* check_solana_balance reports 1000 for a wallet that holds it again.
C39_SpentBalanceReportedFull ==
    /\ paylog.op = "balance" /\ wallet.solana_mock
    /\ wallet.spent = MockBalance
    /\ paylog.had = 0
    /\ paylog.reported = MockBalance
    /\ wallet.balance = MockBalance

(***************************************************************************)
(* A2A peers (a2a_peer_manager.py): create_remote_a2a_agents applied once  *)
(* to a peer list drawn from bounded sets. A URL is the sequence of its    *)
(* segments, "/" being a segment of its own.                               *)
(***************************************************************************)
MaxPeers == 2

PeerNames == {"dak_agent", "provider", "analyst"}
PeerUrls ==
    { <<"http://provider:8000">>,
      <<"http://provider:8000", "/">>,
      <<"http://provider:8000", "/", "/">>,
      <<"http://provider:8000", "/", "api", "/">> }

\* A2APeerConfig(name, url, capabilities)
A2APeerConfig(name, url, capabilities) ==
    [name |-> name, url |-> url, capabilities |-> capabilities]

PeerConfigs ==
    {A2APeerConfig(n, u, c) : n \in PeerNames, u \in PeerUrls, c \in {<< >>}}

\* str.rstrip('/'): every trailing "/" is removed.
RECURSIVE rstrip(_)
rstrip(u) ==
    IF u # << >> /\ u[Len(u)] = "/" THEN rstrip(SubSeq(u, 1, Len(u) - 1)) ELSE u

\* A mutant of the agent-card URL: the peer's name is the path segment.
agent_card_url_PeerName(peer) ==
    rstrip(peer.url) \o <<"/", "a2a", "/", peer.name, "/", ".well-known", "/",
                          "agent-card.json">>

\* create_remote_a2a_agents line 95
agent_card_url(peer) ==
    rstrip(peer.url) \o <<"/", "a2a", "/", "dak_agent", "/", ".well-known", "/",
                          "agent-card.json">>

\* RemoteA2aAgent(name, agent_card, description); the description names the
\* peer, its URL and its capabilities.
RemoteA2aAgent(peer) ==
    [name |-> peer.name, agent_card |-> agent_card_url(peer),
     description |-> [name |-> peer.name, url |-> peer.url,
                      caps |-> IF peer.capabilities = << >> THEN <<"general purpose">>
                               ELSE peer.capabilities]]

\* create_remote_a2a_agents: nothing without the A2A dependency; otherwise
\* one agent per peer, in order, a peer whose agent cannot be created being
\* left out. ok[i] says whether the constructor took peer i.
RECURSIVE create_remote_a2a_agents(_, _, _)
create_remote_a2a_agents(peers, ok, available) ==
    IF ~available \/ peers = << >> THEN << >>
    ELSE LET n == Len(peers)
             before == create_remote_a2a_agents(SubSeq(peers, 1, n - 1), ok, available)
         IN IF ok[n] THEN Append(before, RemoteA2aAgent(peers[n])) ELSE before

InitPeers ==
    /\ \E n \in 0..MaxPeers :
         \E ps \in [1..n -> PeerConfigs], ok \in [1..n -> BOOLEAN], av \in BOOLEAN :
            a2a = [peers |-> ps, ok |-> ok, available |-> av, done |-> FALSE,
                   agents |-> << >>]
    /\ AgentConstructed /\ env = DefaultEnv
    /\ enf = EnfParked /\ trig = TrigParked
    /\ wallet = PayParked /\ ledger = PayParked /\ paylog = PayParked
    /\ store = StoreParked /\ cli = CliParked /\ sk = SkParked
    /\ reg = RegParked /\ bff = BffParked

\* get_a2a_sub_agents: the peers of the configuration become sub-agents.
CreateRemoteAgents ==
    /\ ~a2a.done
    /\ a2a' = [a2a EXCEPT !.done = TRUE,
                          !.agents = create_remote_a2a_agents(a2a.peers, a2a.ok,
                                                              a2a.available)]
    /\ UNCHANGED <<agentVars, enf, trig, payVars, store, cli, sk, reg, bff>>

NextPeers == CreateRemoteAgents

SpecPeers == InitPeers /\ [][NextPeers]_vars

\* C31: every agent created for a peer with name n and base URL u has the
\* agent-card URL made of u without its trailing slashes, then "/a2a/", n
\* and "/.well-known/agent-card.json".
C31_CardUrlNamesThePeer ==
    a2a.done =>
        \A i \in DOMAIN a2a.agents :
            LET ag == a2a.agents[i]
                u == ag.description.url
                base == CHOOSE b \in {SubSeq(u, 1, k) : k \in 0..Len(u)} :
                          /\ (b = << >> \/ b[Len(b)] # "/")
                          /\ \A j \in (Len(b) + 1)..Len(u) : u[j] = "/"
            IN ag.agent_card = base \o <<"/", "a2a", "/", ag.name, "/", ".well-known",
                                         "/", "agent-card.json">>

\* The failing case of C31: the agent created for the peer named provider
\* has the agent-card URL of an agent named dak_agent.
C31_CardUrlNamesDakAgent ==
    /\ a2a.done /\ Len(a2a.agents) = 1
    /\ a2a.peers[1].name = "provider"
    /\ a2a.peers[1].url = <<"http://provider:8000", "/">>
    /\ a2a.agents[1].name = "provider"
    /\ a2a.agents[1].agent_card =
          <<"http://provider:8000", "/", "a2a", "/", "dak_agent", "/", ".well-known",
            "/", "agent-card.json">>

(***************************************************************************)
(* The SkillRegistry (skill_registry.py): load_skills applied once to a    *)
(* registry and a file system drawn from bounded sets.                     *)
(***************************************************************************)
SkillRoots == {"skills", "provider_skills"}

\* A SKILL.md file: the root and directory it lies in, the name its
\* frontmatter gives (None: no name key), the other frontmatter keys, and
\* whether it starts with a YAML frontmatter that parses to a mapping.
SkillFile(root, dir, name, fields, parses) ==
    [root |-> root, dir |-> dir, name |-> name, fields |-> fields, parses |-> parses]

SkillFiles ==
    { SkillFile("skills", "filesystem", None, {"description", "tools"}, TRUE),
      SkillFile("skills", "solana", "solana_wallet", {"description", "tools"}, TRUE),
      SkillFile("skills", "broken", None, {"tools"}, TRUE),
      SkillFile("provider_skills", "premium_service", None, {"description", "tools"}, TRUE),
      SkillFile("provider_skills", "notes", None, {}, FALSE) }

\* The argument of SkillRegistry(...): one path, or a list of paths.
OnePath(p) == [kind |-> "str", path |-> p, paths |-> << >>]
PathList(ps) == [kind |-> "list", path |-> None, paths |-> ps]
RegistryArgs ==
    { OnePath("skills"), OnePath("provider_skills"), OnePath("nowhere"),
      PathList(<<"skills">>), PathList(<<"skills", "provider_skills">>),
      PathList(<<"provider_skills", "nowhere">>) }

\* SkillRegistry.__init__
NewSkillRegistry(arg) ==
    [skills_dir |-> arg, skills |-> {}, loaded |-> FALSE, raised |-> None]

\* load_skills lines 27-33: the key a file is registered under.
SkillKey(f) == IF f.name = None THEN f.dir ELSE f.name

\* _load_skill_md and _validate_skill_format: the file parses and has the
\* required fields (name and instructions are filled in by then).
ValidSkill(f) == f.parses /\ {"description", "tools"} \subseteq f.fields

\* SkillRegistry.load_skills: os.path.exists(self.skills_dir) raises
\* TypeError for a list; a path that does not exist returns; otherwise every
\* SKILL.md under the path that loads and validates is registered.
load_skills(r, fs) ==
    IF r.skills_dir.kind = "list" THEN [r EXCEPT !.raised = "TypeError"]
    ELSE IF r.skills_dir.path \notin SkillRoots THEN r
    ELSE [r EXCEPT !.loaded = TRUE,
                   !.skills = {SkillKey(f) : f \in {g \in fs : g.root = r.skills_dir.path
                                                               /\ ValidSkill(g)}}]

InitRegistry ==
    /\ \E arg \in RegistryArgs, fs \in SUBSET SkillFiles :
         reg = [registry |-> NewSkillRegistry(arg), fs |-> fs, done |-> FALSE]
    /\ AgentConstructed /\ env = DefaultEnv
    /\ enf = EnfParked /\ trig = TrigParked
    /\ wallet = PayParked /\ ledger = PayParked /\ paylog = PayParked
    /\ store = StoreParked /\ cli = CliParked /\ sk = SkParked
    /\ a2a = A2aParked /\ bff = BffParked

\* registry.load_skills()
LoadSkills ==
    /\ ~reg.done
    /\ reg' = [reg EXCEPT !.done = TRUE, !.registry = load_skills(reg.registry, reg.fs)]
    /\ UNCHANGED <<agentVars, enf, trig, payVars, store, cli, sk, a2a, bff>>

NextRegistry == LoadSkills

SpecRegistry == InitRegistry /\ [][NextRegistry]_vars

\* C32: a registry built with a list of directories, after load_skills,
\* holds every valid SKILL.md skill that lies under a directory of the
\* list, and no exception left load_skills.
C32_ListOfRootsIsLoaded ==
    (reg.done /\ reg.registry.skills_dir.kind = "list") =>
        LET ps == reg.registry.skills_dir.paths IN
        /\ reg.registry.raised = None
        /\ \A f \in reg.fs :
              (ValidSkill(f) /\ \E i \in DOMAIN ps : ps[i] = f.root)
                  => SkillKey(f) \in reg.registry.skills

\* The failing case of C32: the registry was built with the two roots, a
\* valid skill lies under each, and load_skills left with TypeError and
\* registered nothing.
C32_ListRaisesTypeError ==
    /\ reg.done
    /\ reg.registry.skills_dir = PathList(<<"skills", "provider_skills">>)
    /\ \E f \in reg.fs : f.dir = "filesystem" /\ ValidSkill(f)
    /\ \E f \in reg.fs : f.dir = "premium_service" /\ ValidSkill(f)
    /\ reg.registry.raised = "TypeError"
    /\ reg.registry.skills = {}
    /\ ~reg.registry.loaded

(***************************************************************************)
(* The BFF (bff/main.py): one /chat request, a step for each response the  *)
(* event generator awaits from the agent.                                  *)
(***************************************************************************)
Prompts == {"hello", "pay"}
SessionIds == {"session_bff_1", "session_bff_2"}
\* An id the agent makes up when it creates a session.
ServerSessionId == "session_agent_9"

\* The payload of POST /run (lines 65-73) with what was known of the session
\* when the request was issued.
RunRequest(b, how) ==
    [path |-> "/run", prompt |-> b.prompt, session_id |-> b.current, via |-> how,
     ensured |-> b.ensured]

\* chat(prompt, session_id): the first two yields, then GET on the session.
InitBff ==
    /\ \E p \in Prompts, sid \in SessionIds, known \in SUBSET SessionIds :
         bff = [pc |-> "get", prompt |-> p, session_id |-> sid, current |-> sid,
                sessions |-> known, ensured |-> "no", run |-> << >>, out |-> "none"]
    /\ AgentConstructed /\ env = DefaultEnv
    /\ enf = EnfParked /\ trig = TrigParked
    /\ wallet = PayParked /\ ledger = PayParked /\ paylog = PayParked
    /\ store = StoreParked /\ cli = CliParked /\ sk = SkParked
    /\ a2a = A2aParked /\ reg = RegParked

\* Lines 75-78: the streaming POST /run is issued.
IssueStream(b) == [b EXCEPT !.pc = "stream", !.run = Append(@, RunRequest(b, "stream"))]

\* Lines 46-53 and 60-62: the GET returned or raised. Status 200 goes on to
\* POST /run, another status to the POST that creates the session.
BffGetSession ==
    /\ bff.pc = "get"
    /\ \E raised \in BOOLEAN :
         bff' = IF raised
                THEN [bff EXCEPT !.pc = "done", !.out = "session_error"]
                ELSE IF bff.current \in bff.sessions
                THEN IssueStream([bff EXCEPT !.ensured = "found"])
                ELSE [bff EXCEPT !.pc = "create"]
    /\ UNCHANGED <<agentVars, enf, trig, payVars, store, cli, sk, a2a, reg>>

\* Lines 53-62: the creating POST returned or raised. Status 200 with an id
\* makes that id the session of the request; any status goes on to POST /run.
BffCreateSession ==
    /\ bff.pc = "create"
    /\ \E answer \in {"raised", "200_same_id", "200_new_id", "200_no_id", "500"} :
         bff' = IF answer = "raised"
                THEN [bff EXCEPT !.pc = "done", !.out = "session_error"]
                ELSE IF answer = "200_same_id"
                THEN IssueStream([bff EXCEPT !.ensured = "created",
                                             !.sessions = @ \cup {bff.current}])
                ELSE IF answer = "200_new_id"
                THEN IssueStream([bff EXCEPT !.ensured = "created",
                                             !.current = ServerSessionId,
                                             !.sessions = @ \cup {ServerSessionId}])
                ELSE IF answer = "200_no_id"
                THEN IssueStream([bff EXCEPT !.ensured = "created"])
                ELSE IssueStream(bff)
    /\ UNCHANGED <<agentVars, enf, trig, payVars, store, cli, sk, a2a, reg>>

\* Lines 76-102: the streamed response was read to its end, or the request
\* raised; after the stream the same payload is posted again.
BffStreamRun ==
    /\ bff.pc = "stream"
    /\ \E raised \in BOOLEAN :
         bff' = IF raised
                THEN [bff EXCEPT !.pc = "done", !.out = "error"]
                ELSE [bff EXCEPT !.pc = "post", !.run = Append(@, RunRequest(bff, "post"))]
    /\ UNCHANGED <<agentVars, enf, trig, payVars, store, cli, sk, a2a, reg>>

\* Lines 102-171: the second POST /run returned, and its events are
\* rendered, or it raised (raise_for_status included).
BffPostRun ==
    /\ bff.pc = "post"
    /\ \E raised \in BOOLEAN :
         bff' = [bff EXCEPT !.pc = "done", !.out = IF raised THEN "error" ELSE "answer"]
    /\ UNCHANGED <<agentVars, enf, trig, payVars, store, cli, sk, a2a, reg>>

NextBff == BffGetSession \/ BffCreateSession \/ BffStreamRun \/ BffPostRun

SpecBff == InitBff /\ [][NextBff]_vars

\* C40: a /chat request issues at most one POST /run, exactly one when it
\* renders the agent's answer; the request carries the prompt, and it is
\* issued only after the session was found or created.
C40_MessageDeliveredOnce ==
    /\ Len(bff.run) <= 1
    /\ bff.out = "answer" => Len(bff.run) = 1
    /\ \A i \in DOMAIN bff.run :
          /\ bff.run[i].prompt = bff.prompt
          /\ bff.run[i].ensured \in {"found", "created"}

\* The failing case of C40: the session existed, the answer was rendered,
\* and two POST /run requests carried the prompt to the same session.
C40_PromptPostedTwice ==
    /\ bff.pc = "done" /\ bff.out = "answer"
    /\ bff.ensured = "found"
    /\ Len(bff.run) = 2
    /\ bff.run[1].prompt = bff.prompt /\ bff.run[2].prompt = bff.prompt
    /\ bff.run[1].session_id = bff.run[2].session_id
    /\ bff.run[1].via = "stream" /\ bff.run[2].via = "post"

=============================================================================
